---- MODULE Spec2Model ----
(***************************************************************************)
(* Model of the scoped dependency-resolution engine of portento-core       *)
(* (class DependencyManagement, src/src/index.ts) on top of one tsyringe   *)
(* child container.                                                        *)
(*                                                                         *)
(* JavaScript values are encoded as follows.                               *)
(*  - a string is a TLA+ string; `undefined` where a string is optional is *)
(*    the reserved string Undefined, which is in none of the input sets;   *)
(*  - a Map is a function whose DOMAIN is the key set;                     *)
(*  - a Symbol.for(key) token is its key string (the global symbol         *)
(*    registry maps equal keys to the same symbol and different keys to    *)
(*    different symbols);                                                  *)
(*  - a provider (a class) is a record [name, fn]: fn tells apart two      *)
(*    classes that carry the same name;                                    *)
(*  - a value handed back by resolve is a record [kind, token, id, cls]:   *)
(*    an object built by a provider, the engine itself, undefined, or a    *)
(*    thrown error.  An object is named by the token whose registration    *)
(*    constructed it and by its rank among the objects constructed for     *)
(*    that token, so two constructions never yield the same object.        *)
(* Providers are classes without constructor parameters, so constructing   *)
(* one resolves nothing further from the container.  Class names are       *)
(* non-empty identifiers; selectors are arbitrary strings, the empty       *)
(* string included.                                                        *)
(***************************************************************************)
EXTENDS Integers, Sequences, FiniteSets, TLC

\* ------------------------------------------------------------------ bounds
MaxObjects == 2   \* objects constructed by the container in one run
MaxScopes == 3    \* scope tables (root names, router tables, component tables)
MaxList == 1      \* length of a Providers / Components array

\* ------------------------------------------------------------------ inputs
Undefined == "<undefined>"

\* selector strings: those handed to setupComponentContainer, those handed
\* to setupRouterContainer, and those handed to resolve and setContext
\* (a selector may be asked for without ever having been set up)
ComponentSelectors == {"", "a"}
RouterSelectors == {"", "a", "b"}
Selectors == ComponentSelectors \cup RouterSelectors
OptSelectors == Selectors \cup {Undefined}

\* the reserved name of the engine
DMName == "DependencyManagement"

\* provider classes: N1 is the class the calls of Next pass; N2 is a second
\* class with the same name
N1 == [name |-> "N", fn |-> 1]
N2 == [name |-> "N", fn |-> 2]
Providers == {N1}
AllProviders == {N1, N2}
ClassNames == {p.name : p \in AllProviders}

\* names of entities (components, routers) listed in a router's components
\* ("S" is an entity no router lists)
EntityNames == {"C"}
OwnerNames == EntityNames \cup {"S"}
OptOwnerNames == OwnerNames \cup {Undefined}

\* names asked of resolve / get
ResolveNames == ClassNames \cup {DMName}

\* the arguments handed to resetScope
ScopeKinds == {"root", "router", "component"}
ResetSelectors == {Undefined, "a"}

SeqsUpTo(S, n) == UNION {[1..k -> S] : k \in 0..n}

\* JavaScript truthiness of an optional string: undefined and "" are falsy
Truthy(s) == s # Undefined /\ s # ""

\* ------------------------------------------------------------------ values
NoProvider == [name |-> "", fn |-> 0]
UndefinedVal == [kind |-> "undefined", token |-> Undefined, id |-> 0, cls |-> NoProvider]
EngineVal == [kind |-> "engine", token |-> Undefined, id |-> 0, cls |-> NoProvider]
ThrownVal == [kind |-> "throw", token |-> Undefined, id |-> 0, cls |-> NoProvider]
Obj(token, n, P) == [kind |-> "object", token |-> token, id |-> n, cls |-> P]

\* ------------------------------------------------------------------ state
VARIABLES
  container,              \* tsyringe registry: token -> registration
  rootScope,              \* className -> token
  routerScopes,           \* routerSelector -> (className -> token)
  componentScopes,        \* componentSelector -> (className -> token)
  currentSelector,
  currentRouterSelector,
  componentToRouter,      \* entity name -> routerSelector
  rootClasses,            \* className -> provider
  routerClasses,          \* routerSelector -> (className -> provider)
  componentClasses,       \* componentSelector -> (className -> provider)
  built,                  \* token -> number of objects constructed for it so far
  ret,                    \* how the last call ended, see Returned
  first,                  \* token -> object of its first resolve since the last reset
  old,                    \* token -> object it held when a reset last discarded it
  lastReset,              \* the most recent reset: "none", "flush" or "clear"
  calls                   \* caller -> the call it has in progress and where it stands

engine == <<container, rootScope, routerScopes, componentScopes,
            currentSelector, currentRouterSelector, componentToRouter,
            rootClasses, routerClasses, componentClasses>>
history == <<ret, first, old, lastReset>>
vars == <<engine, built, history, calls>>

EmptyMap == [k \in {} |-> Undefined]

\* The call sites that use the one engine instance (wrappers of components
\* and routers, a test harness).  A call in progress is [at, token, entity]:
\* the point its body has reached and the local it holds there.
Callers == {"x", "y"}
IdleCall == [at |-> "idle", token |-> Undefined, entity |-> NoProvider]
At(at, token, entity) == [at |-> at, token |-> token, entity |-> entity]
MapSet(m, k, v) == [x \in DOMAIN m \cup {k} |-> IF x = k THEN v ELSE m[x]]

\* ------------------------------------------------------------ tsyringe
\* A registration is {provider, options, instance}.  The engine registers
\* itself with a value provider and every class with Lifecycle.Singleton.
ValueRegistration(v) == [useValue |-> TRUE, useClass |-> NoProvider, instance |-> v]
ClassRegistration(P) == [useValue |-> FALSE, useClass |-> P, instance |-> UndefinedVal]

\* tsyringe.createChildContainer(): an empty registry (the global container
\* holds no registration of its own here)
CreateChildContainer == EmptyMap

\* container.isRegistered(token), non-recursive
IsRegistered(c, token) == token \in DOMAIN c

\* container.register(token, provider, options): the last registration of
\* a token is the one resolve uses
Register(c, token, registration) == MapSet(c, token, registration)

\* a token made from the class name alone
NameOnlyGetToken(className, scope) == "any:" \o className

\* DependencyManagement.getToken
GetToken(className, scope) == scope \o ":" \o className


\* container.resolve with the singleton lifecycle lost: a class provider
\* constructs on every call
TransientContainerResolve(c, token, n) ==
  IF ~IsRegistered(c, token) THEN [c |-> c, value |-> ThrownVal, built |-> FALSE]
  ELSE IF c[token].useValue THEN [c |-> c, value |-> c[token].instance, built |-> FALSE]
  ELSE LET o == Obj(token, n, c[token].useClass)
       IN [c |-> [c EXCEPT ![token].instance = o], value |-> o, built |-> TRUE]

\* container.resolve(token) for a string or symbol token: an unregistered
\* token throws; a value provider yields its value; a singleton class
\* provider yields registration.instance, constructing it when unset.
\* n is the rank a newly constructed object gets.
ContainerResolve(c, token, n) ==
  IF ~IsRegistered(c, token) THEN [c |-> c, value |-> ThrownVal, built |-> FALSE]
  ELSE IF c[token].useValue THEN [c |-> c, value |-> c[token].instance, built |-> FALSE]
  ELSE IF c[token].instance # UndefinedVal
       THEN [c |-> c, value |-> c[token].instance, built |-> FALSE]
  ELSE LET o == Obj(token, n, c[token].useClass)
       IN [c |-> [c EXCEPT ![token].instance = o], value |-> o, built |-> TRUE]

\* a clearInstances that filters the value providers out and leaves the
\* cached instances in place
KeepingClearInstances(c) == [t \in {x \in DOMAIN c : ~c[x].useValue} |-> c[t]]

\* container.clearInstances(): value-provider registrations are filtered
\* out, the instance of every other registration is unset
ClearInstances(c) ==
  [t \in {x \in DOMAIN c : ~c[x].useValue} |-> [c[t] EXCEPT !.instance = UndefinedVal]]

\* ------------------------------------------------------------ the engine
\* the constructor: the engine registers itself under its name
Init ==
  /\ container = Register(CreateChildContainer, DMName, ValueRegistration(EngineVal))
  /\ rootScope = EmptyMap
  /\ routerScopes = EmptyMap
  /\ componentScopes = EmptyMap
  /\ currentSelector = Undefined
  /\ currentRouterSelector = Undefined
  /\ componentToRouter = EmptyMap
  /\ rootClasses = EmptyMap
  /\ routerClasses = EmptyMap
  /\ componentClasses = EmptyMap
  /\ built = EmptyMap
  /\ ret = "void"
  /\ first = EmptyMap
  /\ old = EmptyMap
  /\ lastReset = "none"
  /\ calls = [c \in Callers |-> IdleCall]

\* the provider loop without its two guards "if (!scopeMap.has(className))"
\* and "if (!this.container.isRegistered(scopedToken))"
RECURSIVE ReplacingRegisterProviders(_, _, _)
ReplacingRegisterProviders(st, scope, Ps) ==
  IF Ps = <<>> THEN st
  ELSE LET Provider == Head(Ps)
           scopedToken == GetToken(Provider.name, scope)
           nxt == [scopeMap |-> MapSet(st.scopeMap, Provider.name, scopedToken),
                   classMap |-> MapSet(st.classMap, Provider.name, Provider),
                   c |-> Register(st.c, scopedToken, ClassRegistration(Provider))]
       IN ReplacingRegisterProviders(nxt, scope, Tail(Ps))

\* the provider loop without "classMap.set(className, Provider)"
RECURSIVE ForgetfulRegisterProviders(_, _, _)
ForgetfulRegisterProviders(st, scope, Ps) ==
  IF Ps = <<>> THEN st
  ELSE LET Provider == Head(Ps)
           className == Provider.name
           scopedToken == GetToken(className, scope)
           nxt == IF className \notin DOMAIN st.scopeMap
                  THEN [scopeMap |-> MapSet(st.scopeMap, className, scopedToken),
                        classMap |-> st.classMap,
                        c |-> IF ~IsRegistered(st.c, scopedToken)
                              THEN Register(st.c, scopedToken, ClassRegistration(Provider))
                              ELSE st.c]
                  ELSE st
       IN ForgetfulRegisterProviders(nxt, scope, Tail(Ps))

\* the provider loop with "classMap.set(className, Provider)" moved out of
\* the guard "if (!scopeMap.has(className))": the class map keeps the last
\* class offered under a name
RECURSIVE OverwritingRegisterProviders(_, _, _)
OverwritingRegisterProviders(st, scope, Ps) ==
  IF Ps = <<>> THEN st
  ELSE LET Provider == Head(Ps)
           className == Provider.name
           scopedToken == GetToken(className, scope)
           nxt == IF className \notin DOMAIN st.scopeMap
                  THEN [scopeMap |-> MapSet(st.scopeMap, className, scopedToken),
                        classMap |-> MapSet(st.classMap, className, Provider),
                        c |-> IF ~IsRegistered(st.c, scopedToken)
                              THEN Register(st.c, scopedToken, ClassRegistration(Provider))
                              ELSE st.c]
                  ELSE [st EXCEPT !.classMap = MapSet(st.classMap, className, Provider)]
       IN OverwritingRegisterProviders(nxt, scope, Tail(Ps))

\* the loop "for (const Provider of Providers)" of setupComponentContainer
\* and setupRouterContainer; st is [scopeMap, classMap, c]
RECURSIVE RegisterProviders(_, _, _)
RegisterProviders(st, scope, Ps) ==
  IF Ps = <<>> THEN st
  ELSE LET Provider == Head(Ps)
           className == Provider.name
           scopedToken == GetToken(className, scope)
           nxt == IF className \notin DOMAIN st.scopeMap
                  THEN [scopeMap |-> MapSet(st.scopeMap, className, scopedToken),
                        classMap |-> MapSet(st.classMap, className, Provider),
                        c |-> IF ~IsRegistered(st.c, scopedToken)
                              THEN Register(st.c, scopedToken, ClassRegistration(Provider))
                              ELSE st.c]
                  ELSE st
       IN RegisterProviders(nxt, scope, Tail(Ps))

\* the number of scope tables in use
ScopeCount ==
  Cardinality(DOMAIN rootScope) + Cardinality(DOMAIN routerScopes)
    + Cardinality(DOMAIN componentScopes)

\* the history kept beside the engine when a call neither resolves nor resets
SetupHistory(thrown) ==
  /\ ret' = IF thrown THEN "throw" ELSE "void"
  /\ UNCHANGED <<first, old, lastReset>>

\* a setupRootContainer that constructs the provider as it registers it
EagerSetupRootContainer(Entity) ==
  /\ Entity.name \in DOMAIN rootScope \/ ScopeCount < MaxScopes
  /\ LET className == Entity.name
         scopedToken == GetToken(className, "root")
         n == IF scopedToken \in DOMAIN built THEN built[scopedToken] + 1 ELSE 1
     IN IF className \notin DOMAIN rootScope /\ ~IsRegistered(container, scopedToken)
        THEN /\ rootScope' = MapSet(rootScope, className, scopedToken)
             /\ rootClasses' = MapSet(rootClasses, className, Entity)
             /\ container' = Register(container, scopedToken,
                                      [ClassRegistration(Entity) EXCEPT
                                         !.instance = Obj(scopedToken, n, Entity)])
             /\ built' = MapSet(built, scopedToken, n)
        ELSE UNCHANGED <<rootScope, rootClasses, container, built>>
  /\ SetupHistory(FALSE)
  /\ UNCHANGED <<routerScopes, componentScopes, currentSelector, currentRouterSelector,
                 componentToRouter, routerClasses, componentClasses, calls>>

setupRootContainer(Entity) ==
  /\ Entity.name \in DOMAIN rootScope \/ ScopeCount < MaxScopes
  /\ LET className == Entity.name
         scopedToken == GetToken(className, "root")
     IN IF className \notin DOMAIN rootScope
        THEN /\ rootScope' = MapSet(rootScope, className, scopedToken)
             /\ rootClasses' = MapSet(rootClasses, className, Entity)
             /\ container' = IF ~IsRegistered(container, scopedToken)
                             THEN Register(container, scopedToken, ClassRegistration(Entity))
                             ELSE container
        ELSE UNCHANGED <<rootScope, rootClasses, container>>
  /\ SetupHistory(FALSE)
  /\ UNCHANGED <<routerScopes, componentScopes, currentSelector, currentRouterSelector,
                 componentToRouter, routerClasses, componentClasses, built, calls>>

\* a setupComponentContainer that registers providers only in a scope it
\* has just created: a later call for the same selector adds nothing
FreshOnlySetupComponentContainer(selector, Ps) ==
  /\ selector \in DOMAIN componentScopes \/ ScopeCount < MaxScopes
  /\ IF selector \in DOMAIN componentScopes
     THEN UNCHANGED <<componentScopes, componentClasses, container>>
     ELSE LET st == RegisterProviders([scopeMap |-> EmptyMap, classMap |-> EmptyMap,
                                       c |-> container],
                                      "component:" \o selector, Ps)
          IN /\ componentScopes' = MapSet(componentScopes, selector, st.scopeMap)
             /\ componentClasses' = MapSet(componentClasses, selector, st.classMap)
             /\ container' = st.c
  /\ SetupHistory(FALSE)
  /\ UNCHANGED <<rootScope, routerScopes, currentSelector, currentRouterSelector,
                 componentToRouter, rootClasses, routerClasses, built, calls>>

setupComponentContainer(selector, Ps) ==
  /\ selector \in DOMAIN componentScopes \/ ScopeCount < MaxScopes
  /\ LET fresh == selector \notin DOMAIN componentScopes
         scopes1 == IF fresh THEN MapSet(componentScopes, selector, EmptyMap)
                    ELSE componentScopes
         classes1 == IF fresh THEN MapSet(componentClasses, selector, EmptyMap)
                     ELSE componentClasses
         thrown == selector \notin DOMAIN scopes1 \/ selector \notin DOMAIN classes1
     IN IF thrown
        THEN /\ componentScopes' = scopes1
             /\ componentClasses' = classes1
             /\ UNCHANGED container
             /\ SetupHistory(TRUE)
        ELSE LET st == RegisterProviders(
                         [scopeMap |-> scopes1[selector], classMap |-> classes1[selector],
                          c |-> container],
                         "component:" \o selector, Ps)
             IN /\ componentScopes' = MapSet(scopes1, selector, st.scopeMap)
                /\ componentClasses' = MapSet(classes1, selector, st.classMap)
                /\ container' = st.c
                /\ SetupHistory(FALSE)
  /\ UNCHANGED <<rootScope, routerScopes, currentSelector, currentRouterSelector,
                 componentToRouter, rootClasses, routerClasses, built, calls>>

\* membership tracking in which the first router to list a name keeps it
RECURSIVE FirstWriteTrackMembership(_, _, _)
FirstWriteTrackMembership(m, names, selector) ==
  IF names = <<>> THEN m
  ELSE FirstWriteTrackMembership(
         IF Head(names) \in DOMAIN m THEN m ELSE MapSet(m, Head(names), selector),
         Tail(names), selector)

\* the loop "for (const Component of Components)": names is the array of
\* component names (a class is listed by its name)
RECURSIVE TrackMembership(_, _, _)
TrackMembership(m, names, selector) ==
  IF names = <<>> THEN m
  ELSE TrackMembership(MapSet(m, Head(names), selector), Tail(names), selector)

\* a setupRouterContainer without "this.routerClasses.set(selector, new
\* Map())": the class map of a new selector is missing when it is read
ClasslessSetupRouterContainer(Components, Ps, selector) ==
  /\ selector \in DOMAIN routerScopes \/ ScopeCount < MaxScopes
  /\ LET fresh == selector \notin DOMAIN routerScopes
         scopes1 == IF fresh THEN MapSet(routerScopes, selector, EmptyMap)
                    ELSE routerScopes
         classes1 == routerClasses
         thrown == selector \notin DOMAIN scopes1 \/ selector \notin DOMAIN classes1
     IN IF thrown
        THEN /\ routerScopes' = scopes1
             /\ routerClasses' = classes1
             /\ UNCHANGED <<container, componentToRouter>>
             /\ SetupHistory(TRUE)
        ELSE LET st == RegisterProviders(
                         [scopeMap |-> scopes1[selector], classMap |-> classes1[selector],
                          c |-> container],
                         "router:" \o selector, Ps)
             IN /\ componentToRouter' = TrackMembership(componentToRouter, Components, selector)
                /\ routerScopes' = MapSet(scopes1, selector, st.scopeMap)
                /\ routerClasses' = MapSet(classes1, selector, st.classMap)
                /\ container' = st.c
                /\ SetupHistory(FALSE)
  /\ UNCHANGED <<rootScope, componentScopes, currentSelector, currentRouterSelector,
                 rootClasses, componentClasses, built, calls>>

setupRouterContainer(Components, Ps, selector) ==
  /\ selector \in DOMAIN routerScopes \/ ScopeCount < MaxScopes
  /\ LET fresh == selector \notin DOMAIN routerScopes
         scopes1 == IF fresh THEN MapSet(routerScopes, selector, EmptyMap)
                    ELSE routerScopes
         classes1 == IF fresh THEN MapSet(routerClasses, selector, EmptyMap)
                     ELSE routerClasses
         thrown == selector \notin DOMAIN scopes1 \/ selector \notin DOMAIN classes1
     IN IF thrown
        THEN /\ routerScopes' = scopes1
             /\ routerClasses' = classes1
             /\ UNCHANGED <<container, componentToRouter>>
             /\ SetupHistory(TRUE)
        ELSE LET st == RegisterProviders(
                         [scopeMap |-> scopes1[selector], classMap |-> classes1[selector],
                          c |-> container],
                         "router:" \o selector, Ps)
             IN /\ componentToRouter' = TrackMembership(componentToRouter, Components, selector)
                /\ routerScopes' = MapSet(scopes1, selector, st.scopeMap)
                /\ routerClasses' = MapSet(classes1, selector, st.classMap)
                /\ container' = st.c
                /\ SetupHistory(FALSE)
  /\ UNCHANGED <<rootScope, componentScopes, currentSelector, currentRouterSelector,
                 rootClasses, componentClasses, built, calls>>

getRouterForComponent(componentName) ==
  IF componentName \in DOMAIN componentToRouter THEN componentToRouter[componentName]
  ELSE Undefined

\* a lookup that takes the name from any selector's table
AnySelectorScopeToken(scopes, selector, className) ==
  LET holders == {s \in DOMAIN scopes : className \in DOMAIN scopes[s]}
  IN IF holders # {} THEN scopes[CHOOSE s \in holders : TRUE][className]
     ELSE Undefined

\* scopes.get(selector)?.get(className)
ScopeToken(scopes, selector, className) ==
  IF selector \in DOMAIN scopes /\ className \in DOMAIN scopes[selector]
  THEN scopes[selector][className]
  ELSE Undefined

\* "token && this.container.isRegistered(token)"
Usable(token) == token # Undefined /\ IsRegistered(container, token)

\* resolve that stops at the component scope when a component selector is
\* given, instead of falling through
NoFallThroughResolveTarget(className, componentSelector, routerSelector, componentClassName) ==
  LET componentToken == ScopeToken(componentScopes, componentSelector, className)
      routerToken ==
        IF Truthy(routerSelector)
        THEN ScopeToken(routerScopes, routerSelector, className)
        ELSE Undefined
      parentRouterSelector ==
        IF Truthy(componentClassName) THEN getRouterForComponent(componentClassName)
        ELSE Undefined
      parentRouterToken ==
        IF Truthy(parentRouterSelector) /\ parentRouterSelector # routerSelector
        THEN ScopeToken(routerScopes, parentRouterSelector, className)
        ELSE Undefined
      rootToken ==
        IF className \in DOMAIN rootScope THEN rootScope[className] ELSE Undefined
  IN IF Truthy(componentSelector)
     THEN (IF Usable(componentToken) THEN componentToken ELSE Undefined)
     ELSE IF Usable(routerToken) THEN routerToken
     ELSE IF Usable(parentRouterToken) THEN parentRouterToken
     ELSE IF Usable(rootToken) THEN rootToken
     ELSE Undefined

\* resolve that takes the parent-router hop first, whatever routerSelector
\* is, and only then looks into the component and own-router tables
HopFirstResolveTarget(className, componentSelector, routerSelector, componentClassName) ==
  LET componentToken ==
        IF Truthy(componentSelector)
        THEN ScopeToken(componentScopes, componentSelector, className)
        ELSE Undefined
      routerToken ==
        IF Truthy(routerSelector)
        THEN ScopeToken(routerScopes, routerSelector, className)
        ELSE Undefined
      parentRouterSelector ==
        IF Truthy(componentClassName) THEN getRouterForComponent(componentClassName)
        ELSE Undefined
      parentRouterToken ==
        IF Truthy(parentRouterSelector)
        THEN ScopeToken(routerScopes, parentRouterSelector, className)
        ELSE Undefined
      rootToken ==
        IF className \in DOMAIN rootScope THEN rootScope[className] ELSE Undefined
  IN IF Usable(parentRouterToken) THEN parentRouterToken
     ELSE IF Usable(componentToken) THEN componentToken
     ELSE IF Usable(routerToken) THEN routerToken
     ELSE IF Usable(rootToken) THEN rootToken
     ELSE Undefined

\* resolve with a second hop: after the router of the owner, the router
\* that router's class is a member of (a router class is listed by the name
\* that is also its selector)
TwoLevelResolveTarget(className, componentSelector, routerSelector, componentClassName) ==
  LET componentToken ==
        IF Truthy(componentSelector)
        THEN ScopeToken(componentScopes, componentSelector, className)
        ELSE Undefined
      routerToken ==
        IF Truthy(routerSelector)
        THEN ScopeToken(routerScopes, routerSelector, className)
        ELSE Undefined
      parentRouterSelector ==
        IF Truthy(componentClassName) THEN getRouterForComponent(componentClassName)
        ELSE Undefined
      parentRouterToken ==
        IF Truthy(parentRouterSelector) /\ parentRouterSelector # routerSelector
        THEN ScopeToken(routerScopes, parentRouterSelector, className)
        ELSE Undefined
      grandRouterSelector ==
        IF Truthy(parentRouterSelector) THEN getRouterForComponent(parentRouterSelector)
        ELSE Undefined
      grandRouterToken ==
        IF Truthy(grandRouterSelector)
        THEN ScopeToken(routerScopes, grandRouterSelector, className)
        ELSE Undefined
      rootToken ==
        IF className \in DOMAIN rootScope THEN rootScope[className] ELSE Undefined
  IN IF Usable(componentToken) THEN componentToken
     ELSE IF Usable(routerToken) THEN routerToken
     ELSE IF Usable(parentRouterToken) THEN parentRouterToken
     ELSE IF Usable(grandRouterToken) THEN grandRouterToken
     ELSE IF Usable(rootToken) THEN rootToken
     ELSE Undefined

\* The token resolve hands to container.resolve for a className other than
\* the engine's, or Undefined when every lookup falls through.
ResolveTarget(className, componentSelector, routerSelector, componentClassName) ==
  LET componentToken ==
        IF Truthy(componentSelector)
        THEN ScopeToken(componentScopes, componentSelector, className)
        ELSE Undefined
      routerToken ==
        IF Truthy(routerSelector)
        THEN ScopeToken(routerScopes, routerSelector, className)
        ELSE Undefined
      parentRouterSelector ==
        IF Truthy(componentClassName) THEN getRouterForComponent(componentClassName)
        ELSE Undefined
      parentRouterToken ==
        IF Truthy(parentRouterSelector) /\ parentRouterSelector # routerSelector
        THEN ScopeToken(routerScopes, parentRouterSelector, className)
        ELSE Undefined
      rootToken ==
        IF className \in DOMAIN rootScope THEN rootScope[className] ELSE Undefined
  IN IF Usable(componentToken) THEN componentToken
     ELSE IF Usable(routerToken) THEN routerToken
     ELSE IF Usable(parentRouterToken) THEN parentRouterToken
     ELSE IF Usable(rootToken) THEN rootToken
     ELSE Undefined

\* the number of objects constructed so far for a token, and in all
Built(token) == IF token \in DOMAIN built THEN built[token] ELSE 0
RECURSIVE SumBuilt(_)
SumBuilt(T) == IF T = {} THEN 0
               ELSE LET t == CHOOSE x \in T : TRUE IN built[t] + SumBuilt(T \ {t})
Objects == SumBuilt(DOMAIN built)

\* What resolve does in the current state: the token it hands to
\* container.resolve (target), the value it returns, the container it
\* leaves and whether an object was constructed.
ResolveOutcome(className, componentSelector, routerSelector, componentClassName) ==
  LET target == IF className = DMName THEN DMName
                ELSE ResolveTarget(className, componentSelector, routerSelector,
                                   componentClassName)
      r == IF target = Undefined
           THEN [c |-> container, value |-> UndefinedVal, built |-> FALSE]
           ELSE ContainerResolve(container, target, Built(target) + 1)
  IN [target |-> target, c |-> r.c, value |-> r.value, built |-> r.built]

\* How a call ended: "void" for a method that returns nothing, "throw" for
\* an error, and for resolve and get the kind of value returned: "built"
\* (an object constructed by this call), "cached" (an object constructed
\* earlier), "undefined" or "engine".
Returned(r) ==
  IF r.value.kind = "object" THEN (IF r.built THEN "built" ELSE "cached")
  ELSE r.value.kind

\* the body of resolve, shared by resolve and get
Resolving(className, componentSelector, routerSelector, componentClassName) ==
  LET r == ResolveOutcome(className, componentSelector, routerSelector,
                          componentClassName)
  IN /\ r.built => Objects < MaxObjects
     /\ container' = r.c
     /\ built' = IF r.built THEN MapSet(built, r.target, Built(r.target) + 1) ELSE built
     /\ ret' = Returned(r)
     /\ first' = IF r.value.kind = "object" /\ r.target \notin DOMAIN first
                 THEN MapSet(first, r.target, r.value)
                 ELSE first
     /\ UNCHANGED <<rootScope, routerScopes, componentScopes, currentSelector,
                    currentRouterSelector, componentToRouter, rootClasses,
                    routerClasses, componentClasses, old, lastReset, calls>>

\* a resolve that, having hit a token above the root, also constructs the
\* root-scope instance of the name
CascadingResolve(className, componentSelector, routerSelector, componentClassName) ==
  LET r == ResolveOutcome(className, componentSelector, routerSelector,
                          componentClassName)
      rootToken == IF className \in DOMAIN rootScope THEN rootScope[className]
                   ELSE Undefined
      below == /\ r.built
               /\ Usable(rootToken)
               /\ rootToken # r.target
               /\ container[rootToken].instance = UndefinedVal
  IN IF below
     THEN /\ Objects + 1 < MaxObjects
          /\ container' = ContainerResolve(r.c, rootToken, Built(rootToken) + 1).c
          /\ built' = MapSet(MapSet(built, r.target, Built(r.target) + 1),
                             rootToken, Built(rootToken) + 1)
          /\ ret' = Returned(r)
          /\ first' = IF r.target \notin DOMAIN first
                      THEN MapSet(first, r.target, r.value)
                      ELSE first
          /\ UNCHANGED <<rootScope, routerScopes, componentScopes, currentSelector,
                         currentRouterSelector, componentToRouter, rootClasses,
                         routerClasses, componentClasses, old, lastReset, calls>>
     ELSE Resolving(className, componentSelector, routerSelector, componentClassName)

resolve(className, componentSelector, routerSelector, componentClassName) ==
  Resolving(className, componentSelector, routerSelector, componentClassName)

\* a get that names a requester, so that the parent-router hop is taken
OwnedGet(className) ==
  Resolving(className, currentSelector, currentRouterSelector, "C")

get(className) ==
  Resolving(className, currentSelector, currentRouterSelector, Undefined)

setContext(selector, routerSelector) ==
  /\ currentSelector' = selector
  /\ currentRouterSelector' = routerSelector
  /\ ret' = "void"
  /\ UNCHANGED <<container, rootScope, routerScopes, componentScopes, componentToRouter,
                 rootClasses, routerClasses, componentClasses, built, first, old,
                 lastReset, calls>>

\* a clearContext that forgets the component selector and keeps the router
\* selector
ComponentOnlyClearContext ==
  /\ currentSelector' = Undefined
  /\ ret' = "void"
  /\ UNCHANGED <<container, rootScope, routerScopes, componentScopes, currentRouterSelector,
                 componentToRouter, rootClasses, routerClasses, componentClasses, built,
                 first, old, lastReset, calls>>

clearContext ==
  /\ currentSelector' = Undefined
  /\ currentRouterSelector' = Undefined
  /\ ret' = "void"
  /\ UNCHANGED <<container, rootScope, routerScopes, componentScopes, componentToRouter,
                 rootClasses, routerClasses, componentClasses, built, first, old,
                 lastReset, calls>>

\* the (token, Provider) pairs reregisterAll replays from one scope table
\* and its class map: "if (Provider)" skips a name without a class
TableEntries(scopeMap, classMap) ==
  {[token |-> scopeMap[n], provider |-> classMap[n]] :
     n \in DOMAIN scopeMap \cap DOMAIN classMap}

\* "if (routerClassMap)" / "if (componentClassMap)" skips a selector
\* without a class map
ScopesEntries(scopes, classes) ==
  UNION {TableEntries(scopes[s], classes[s]) : s \in DOMAIN scopes \cap DOMAIN classes}

\* reregisterAll without its last loop: the component scopes are not replayed
RootAndRoutersReregisterAll(c) ==
  LET entries == TableEntries(rootScope, rootClasses)
                   \cup ScopesEntries(routerScopes, routerClasses)
      tokens == {e.token : e \in entries}
      Candidates(t) == {e.provider : e \in {x \in entries : x.token = t}}
      winners == {w \in [tokens -> AllProviders] : \A t \in tokens : w[t] \in Candidates(t)}
  IN {[t \in DOMAIN c \cup tokens |->
         IF t \in tokens THEN ClassRegistration(w[t]) ELSE c[t]] : w \in winners}

\* reregisterAll on container c: every replayed pair is registered without
\* an isRegistered check, so a token replayed more than once ends with the
\* registration of its last replay.  The iteration order of the Maps is not
\* part of the state here, so any of the token's pairs may be the last; the
\* result is the set of containers reregisterAll can produce.
ReregisterAll(c) ==
  LET entries == TableEntries(rootScope, rootClasses)
                   \cup ScopesEntries(routerScopes, routerClasses)
                   \cup ScopesEntries(componentScopes, componentClasses)
      tokens == {e.token : e \in entries}
      Candidates(t) == {e.provider : e \in {x \in entries : x.token = t}}
      winners == {w \in [tokens -> AllProviders] : \A t \in tokens : w[t] \in Candidates(t)}
  IN {[t \in DOMAIN c \cup tokens |->
         IF t \in tokens THEN ClassRegistration(w[t]) ELSE c[t]] : w \in winners}

\* the entries of the scope tables: scope kind, selector, name and token
RootEntries ==
  {[kind |-> "root", selector |-> Undefined, name |-> n, token |-> rootScope[n]] :
     n \in DOMAIN rootScope}
RouterEntries ==
  UNION {{[kind |-> "router", selector |-> s, name |-> n, token |-> routerScopes[s][n]] :
            n \in DOMAIN routerScopes[s]} : s \in DOMAIN routerScopes}
ComponentEntries ==
  UNION {{[kind |-> "component", selector |-> s, name |-> n,
           token |-> componentScopes[s][n]] :
            n \in DOMAIN componentScopes[s]} : s \in DOMAIN componentScopes}
ScopeEntries == RootEntries \cup RouterEntries \cup ComponentEntries

\* what a reset leaves in the history variables
ResetHistory(strategy) ==
  /\ ret' = "void"
  /\ old' = [t \in DOMAIN old \cup DOMAIN first |->
               IF t \in DOMAIN first THEN first[t] ELSE old[t]]
  /\ first' = EmptyMap
  /\ lastReset' = strategy

\* a flush that registers what is missing and drops nothing
KeepingFlush ==
  {[t \in DOMAIN c |-> IF t \in DOMAIN container THEN container[t] ELSE c[t]] :
     c \in ReregisterAll(container)}

\* container.reset(); container = tsyringe.createChildContainer();
\* reregisterAll()
FullFlush == ReregisterAll(CreateChildContainer)

\* a resetScope that discards only the cached instances of the scope kind
\* it is asked for
ScopedResetScope(scope, selector) ==
  /\ ResetHistory("flush")
  /\ container' =
       [t \in DOMAIN container |->
          IF \E e \in ScopeEntries : e.token = t /\ e.kind = scope
          THEN [container[t] EXCEPT !.instance = UndefinedVal]
          ELSE container[t]]
  /\ UNCHANGED <<rootScope, routerScopes, componentScopes, currentSelector,
                 currentRouterSelector, componentToRouter, rootClasses, routerClasses,
                 componentClasses, built, calls>>

\* a resetScope that also ends the ambient-resolution session
ContextClearingResetScope(scope, selector) ==
  /\ ResetHistory("flush")
  /\ container' \in FullFlush
  /\ currentSelector' = Undefined
  /\ currentRouterSelector' = Undefined
  /\ UNCHANGED <<rootScope, routerScopes, componentScopes, componentToRouter,
                 rootClasses, routerClasses, componentClasses, built, calls>>

resetScope(scope, selector) ==
  /\ ResetHistory("flush")
  /\ container' \in FullFlush
  /\ UNCHANGED <<rootScope, routerScopes, componentScopes, currentSelector,
                 currentRouterSelector, componentToRouter, rootClasses, routerClasses,
                 componentClasses, built, calls>>

\* a resetClass that rejects a class name no scope table holds
ThrowingResetClass(className) ==
  IF \E e \in ScopeEntries : e.name = className
  THEN /\ ResetHistory("flush")
       /\ container' \in FullFlush
       /\ UNCHANGED <<rootScope, routerScopes, componentScopes, currentSelector,
                      currentRouterSelector, componentToRouter, rootClasses, routerClasses,
                      componentClasses, built, calls>>
  ELSE /\ ret' = "throw"
       /\ UNCHANGED <<engine, built, first, old, lastReset, calls>>

resetClass(className) ==
  /\ ResetHistory("flush")
  /\ container' \in FullFlush
  /\ UNCHANGED <<rootScope, routerScopes, componentScopes, currentSelector,
                 currentRouterSelector, componentToRouter, rootClasses, routerClasses,
                 componentClasses, built, calls>>

\* a resetAll that also forgets which router each entity belongs to
ForgettingResetAll ==
  /\ ResetHistory("clear")
  /\ container' = ClearInstances(container)
  /\ componentToRouter' = EmptyMap
  /\ UNCHANGED <<rootScope, routerScopes, componentScopes, currentSelector,
                 currentRouterSelector, rootClasses, routerClasses, componentClasses,
                 built, calls>>

resetAll ==
  /\ ResetHistory("clear")
  /\ container' = ClearInstances(container)
  /\ UNCHANGED <<rootScope, routerScopes, componentScopes, currentSelector,
                 currentRouterSelector, componentToRouter, rootClasses, routerClasses,
                 componentClasses, built, calls>>

\* the reset entry points of one step
Reset ==
  \/ \E scope \in ScopeKinds, selector \in ResetSelectors : resetScope(scope, selector)
  \/ \E className \in ClassNames : resetClass(className)
  \/ resetAll

\* resolve returns before it reads its selectors when asked for the engine,
\* so one call stands for all of them
Next ==
  \/ \E Entity \in Providers : setupRootContainer(Entity)
  \/ \E selector \in ComponentSelectors, Ps \in SeqsUpTo(Providers, MaxList) :
       setupComponentContainer(selector, Ps)
  \/ \E Components \in SeqsUpTo(EntityNames, MaxList), Ps \in SeqsUpTo(Providers, MaxList),
        selector \in RouterSelectors :
       setupRouterContainer(Components, Ps, selector)
  \/ \E className \in ClassNames, cs \in OptSelectors, rs \in OptSelectors,
        owner \in OptOwnerNames :
       resolve(className, cs, rs, owner)
  \/ resolve(DMName, Undefined, Undefined, Undefined)
  \/ \E scope \in ScopeKinds, selector \in ResetSelectors : resetScope(scope, selector)
  \/ \E className \in ClassNames : resetClass(className)
  \/ resetAll

Spec == Init /\ [][Next]_vars

\* the ambient context and get, over the scopes set up by the same calls
\* (context and get neither read nor write what the resets change)
NextContext ==
  \/ \E Entity \in Providers : setupRootContainer(Entity)
  \/ \E selector \in ComponentSelectors, Ps \in SeqsUpTo(Providers, MaxList) :
       setupComponentContainer(selector, Ps)
  \/ \E Components \in SeqsUpTo(EntityNames, MaxList), Ps \in SeqsUpTo(Providers, MaxList),
        selector \in RouterSelectors :
       setupRouterContainer(Components, Ps, selector)
  \/ \E selector \in OptSelectors, routerSelector \in OptSelectors :
       setContext(selector, routerSelector)
  \/ clearContext
  \/ \E className \in ResolveNames : get(className)

SpecContext == Init /\ [][NextContext]_vars

\* the resets inside an ambient-resolution session: the context is set to
\* one component and one router selector or left absent, and no router
\* lists a member (get names no requester)
NextContextReset ==
  \/ \E Entity \in Providers : setupRootContainer(Entity)
  \/ \E selector \in ComponentSelectors, Ps \in SeqsUpTo(Providers, MaxList) :
       setupComponentContainer(selector, Ps)
  \/ \E Ps \in SeqsUpTo(Providers, MaxList), selector \in RouterSelectors :
       setupRouterContainer(<<>>, Ps, selector)
  \/ \E selector \in ResetSelectors, routerSelector \in ResetSelectors :
       setContext(selector, routerSelector)
  \/ clearContext
  \/ \E className \in ResolveNames : get(className)
  \/ \E scope \in ScopeKinds, selector \in ResetSelectors : resetScope(scope, selector)
  \/ \E className \in ClassNames : resetClass(className)
  \/ resetAll

SpecContextReset == Init /\ [][NextContextReset]_vars

\* Two different classes of one name (Function.name is all the engine
\* reads of a class): every provider array of a component or router setup
\* holds both, in either order, and the root is set up with either
SameName == {<<N1, N2>>, <<N2, N1>>}

NextCollision ==
  \/ \E Entity \in AllProviders : setupRootContainer(Entity)
  \/ \E selector \in ComponentSelectors, Ps \in SameName :
       setupComponentContainer(selector, Ps)
  \/ \E Ps \in SameName, selector \in RouterSelectors :
       setupRouterContainer(<<>>, Ps, selector)
  \/ \E className \in ClassNames, cs \in OptSelectors, rs \in OptSelectors :
       resolve(className, cs, rs, Undefined)
  \/ \E scope \in ScopeKinds, selector \in ResetSelectors : resetScope(scope, selector)
  \/ \E className \in ClassNames : resetClass(className)
  \/ resetAll

SpecCollision == Init /\ [][NextCollision]_vars

\* Routers nested in routers: a router is listed among the components of
\* another router by its class, and here the name of a router's class is
\* also its selector, so that the membership map leads from a router to the
\* router above it.  resolve is called as a router wrapper calls it, with
\* no component selector.  A class has a name, so the names are not empty.
ChainRouters == {"a", "b", "c"}

NextChain ==
  \/ \E Entity \in Providers : setupRootContainer(Entity)
  \/ \E Components \in SeqsUpTo(ChainRouters, MaxList), Ps \in SeqsUpTo(Providers, MaxList),
        selector \in ChainRouters :
       setupRouterContainer(Components, Ps, selector)
  \/ \E className \in ClassNames, rs \in ChainRouters \cup {Undefined},
        owner \in ChainRouters \cup {Undefined} :
       resolve(className, Undefined, rs, owner)

SpecChain == Init /\ [][NextChain]_vars

\* Scopes that are set up more than once, with providers of two names: a
\* later call can find a scope that holds one of them and add the other
M1 == [name |-> "M", fn |-> 6]
TwoProviders == {N1, M1}
TwoNames == {p.name : p \in TwoProviders}

AddRouterSelectors == {"a", "b"}

NextAdd ==
  \/ \E Entity \in Providers : setupRootContainer(Entity)
  \/ \E selector \in ComponentSelectors, Ps \in SeqsUpTo(TwoProviders, MaxList) :
       setupComponentContainer(selector, Ps)
  \/ \E Ps \in SeqsUpTo(TwoProviders, MaxList), selector \in AddRouterSelectors :
       setupRouterContainer(<<>>, Ps, selector)
  \/ \E className \in TwoNames, cs \in ComponentSelectors \cup {Undefined},
        rs \in AddRouterSelectors \cup {Undefined} :
       resolve(className, cs, rs, Undefined)

SpecAdd == Init /\ [][NextAdd]_vars

\* Selectors and class names are arbitrary strings: the same calls with a
\* selector and a Function.name that contain the separator of getToken
TokenSelectors == {"a", "a:b"}
OptTokenSelectors == TokenSelectors \cup {Undefined}
N3 == [name |-> "b:N", fn |-> 3]
TokenProviders == {N1, N3}
TokenNames == {p.name : p \in TokenProviders}

NextToken ==
  \/ \E Entity \in TokenProviders : setupRootContainer(Entity)
  \/ \E selector \in TokenSelectors, Ps \in SeqsUpTo(TokenProviders, MaxList) :
       setupComponentContainer(selector, Ps)
  \/ \E Ps \in SeqsUpTo(TokenProviders, MaxList), selector \in TokenSelectors :
       setupRouterContainer(<<>>, Ps, selector)
  \/ \E className \in TokenNames, cs \in OptTokenSelectors, rs \in OptTokenSelectors :
       resolve(className, cs, rs, Undefined)

SpecToken == Init /\ [][NextToken]_vars

\* ------------------------------------------------- the calls, step by step
\* The bodies of setupRootContainer, resolve, resetScope and resetClass cut
\* at each read of the container that a later write of the same body
\* depends on.  The points a call in progress can stand at:
OfSetup == {"hasChecked", "isRegisteredChecked"}
OfResolve == {"lookedUp", "constructing"}
OfReset == {"dropped", "rootDone", "routersDone"}

\* the fields of the engine other than the container
tables == <<rootScope, routerScopes, componentScopes, currentSelector,
            currentRouterSelector, componentToRouter, rootClasses, routerClasses,
            componentClasses>>

\* an engine whose reset yields between its statements: a call starts while
\* another caller's reset stands between the drop and the end of the rebuild
IdleButForResets == \A c \in Callers : calls[c].at \in {"idle"} \cup OfReset

\* an engine whose setup yields between its statements: a call starts while
\* another caller's setupRootContainer stands between its checks and its
\* register
IdleButForSetups == \A c \in Callers : calls[c].at \in {"idle"} \cup OfSetup

\* No method of the class is async, awaits or takes a callback, and no
\* provider has a constructor parameter: a call runs from its first
\* statement to its return before any caller's next call starts.
Idle == \A c \in Callers : calls[c] = IdleCall

\* setupRootContainer up to "if (!this.rootScope.has(className))"
setupRootContainerHas(c, Entity) ==
  /\ Idle
  /\ calls[c] = IdleCall
  /\ Entity.name \in DOMAIN rootScope \/ ScopeCount < MaxScopes
  /\ IF Entity.name \notin DOMAIN rootScope
     THEN /\ calls' = [calls EXCEPT ![c] = At("hasChecked", GetToken(Entity.name, "root"),
                                              Entity)]
          /\ UNCHANGED ret
     ELSE /\ ret' = "void"
          /\ UNCHANGED calls
  /\ UNCHANGED <<engine, built, first, old, lastReset>>

\* rootScope.set, rootClasses.set and "if (!this.container.isRegistered(scopedToken))"
setupRootContainerSet(c) ==
  /\ calls[c].at = "hasChecked"
  /\ LET Entity == calls[c].entity
         scopedToken == calls[c].token
     IN /\ rootScope' = MapSet(rootScope, Entity.name, scopedToken)
        /\ rootClasses' = MapSet(rootClasses, Entity.name, Entity)
        /\ IF ~IsRegistered(container, scopedToken)
           THEN /\ calls' = [calls EXCEPT ![c] = At("isRegisteredChecked", scopedToken,
                                                    Entity)]
                /\ UNCHANGED ret
           ELSE /\ calls' = [calls EXCEPT ![c] = IdleCall]
                /\ ret' = "void"
  /\ UNCHANGED <<container, routerScopes, componentScopes, currentSelector,
                 currentRouterSelector, componentToRouter, routerClasses,
                 componentClasses, built, first, old, lastReset>>

\* this.container.register(scopedToken, {useClass: Entity}, singleton)
setupRootContainerRegister(c) ==
  /\ calls[c].at = "isRegisteredChecked"
  /\ container' = Register(container, calls[c].token, ClassRegistration(calls[c].entity))
  /\ calls' = [calls EXCEPT ![c] = IdleCall]
  /\ ret' = "void"
  /\ UNCHANGED <<tables, built, first, old, lastReset>>

\* resolve up to the token it hands to container.resolve: the table
\* lookups and the isRegistered checks
resolveLookup(c, className, componentSelector, routerSelector, componentClassName) ==
  /\ Idle
  /\ calls[c] = IdleCall
  /\ LET r == ResolveOutcome(className, componentSelector, routerSelector,
                             componentClassName)
     IN /\ r.built => Objects < MaxObjects
        /\ IF r.target = Undefined
           THEN /\ ret' = "undefined"
                /\ UNCHANGED calls
           ELSE /\ calls' = [calls EXCEPT ![c] = At("lookedUp", r.target, NoProvider)]
                /\ UNCHANGED ret
  /\ UNCHANGED <<engine, built, first, old, lastReset>>

\* container.resolve(token) up to its read of registration.instance: it
\* throws, returns the value or the cached instance, or goes on to
\* construct with the class it read
containerResolveRead(c) ==
  /\ calls[c].at = "lookedUp"
  /\ LET t == calls[c].token
         r == ContainerResolve(container, t, Built(t) + 1)
     IN IF r.built
        THEN /\ calls' = [calls EXCEPT ![c] = At("constructing", t, container[t].useClass)]
             /\ UNCHANGED <<ret, first>>
        ELSE /\ calls' = [calls EXCEPT ![c] = IdleCall]
             /\ ret' = Returned(r)
             /\ first' = IF r.value.kind = "object" /\ t \notin DOMAIN first
                         THEN MapSet(first, t, r.value)
                         ELSE first
  /\ UNCHANGED <<engine, built, old, lastReset>>

\* container.resolve(token) from there: the object is constructed, kept as
\* registration.instance and returned
containerResolveStore(c) ==
  /\ calls[c].at = "constructing"
  /\ LET t == calls[c].token
         o == Obj(t, Built(t) + 1, calls[c].entity)
     IN /\ container' = IF IsRegistered(container, t)
                        THEN [container EXCEPT ![t].instance = o]
                        ELSE container
        /\ built' = MapSet(built, t, Built(t) + 1)
        /\ first' = IF t \notin DOMAIN first THEN MapSet(first, t, o) ELSE first
  /\ calls' = [calls EXCEPT ![c] = IdleCall]
  /\ ret' = "built"
  /\ UNCHANGED <<tables, old, lastReset>>

\* "this.container.reset(); this.container = tsyringe.createChildContainer();"
\* of resetScope and of resetClass
resetScopeDrop(c, scope, selector) ==
  /\ ResetHistory("flush")
  /\ Idle
  /\ calls[c] = IdleCall
  /\ container' = CreateChildContainer
  /\ calls' = [calls EXCEPT ![c] = At("dropped", Undefined, NoProvider)]
  /\ UNCHANGED <<tables, built>>

resetClassDrop(c, className) ==
  /\ ResetHistory("flush")
  /\ Idle
  /\ calls[c] = IdleCall
  /\ container' = CreateChildContainer
  /\ calls' = [calls EXCEPT ![c] = At("dropped", Undefined, NoProvider)]
  /\ UNCHANGED <<tables, built>>

\* one loop of reregisterAll on container c: every pair is registered, and
\* of the pairs of one token any may be the last
Replay(c, entries) ==
  LET tokens == {e.token : e \in entries}
      Candidates(t) == {e.provider : e \in {x \in entries : x.token = t}}
      winners == {w \in [tokens -> AllProviders] : \A t \in tokens : w[t] \in Candidates(t)}
  IN {[t \in DOMAIN c \cup tokens |->
         IF t \in tokens THEN ClassRegistration(w[t]) ELSE c[t]] : w \in winners}

\* reregisterAll, loop "Re-register root scope"
reregisterRoot(c) ==
  /\ calls[c].at = "dropped"
  /\ container' \in Replay(container, TableEntries(rootScope, rootClasses))
  /\ calls' = [calls EXCEPT ![c] = At("rootDone", Undefined, NoProvider)]
  /\ UNCHANGED <<tables, built, history>>

\* reregisterAll, loop "Re-register all router scopes"
reregisterRouters(c) ==
  /\ calls[c].at = "rootDone"
  /\ container' \in Replay(container, ScopesEntries(routerScopes, routerClasses))
  /\ calls' = [calls EXCEPT ![c] = At("routersDone", Undefined, NoProvider)]
  /\ UNCHANGED <<tables, built, history>>

\* reregisterAll, loop "Re-register all component scopes", and the return
\* of the reset
reregisterComponents(c) ==
  /\ calls[c].at = "routersDone"
  /\ container' \in Replay(container, ScopesEntries(componentScopes, componentClasses))
  /\ calls' = [calls EXCEPT ![c] = IdleCall]
  /\ UNCHANGED <<tables, built, history>>

\* the calls of several callers on the one engine; a call that is not cut
\* here is one step, and resolve is called without a requester
NextSteps ==
  \/ \E c \in Callers, Entity \in Providers : setupRootContainerHas(c, Entity)
  \/ \E c \in Callers : setupRootContainerSet(c)
  \/ \E c \in Callers : setupRootContainerRegister(c)
  \/ \E selector \in ComponentSelectors, Ps \in SeqsUpTo(Providers, MaxList) :
       Idle /\ setupComponentContainer(selector, Ps)
  \/ \E Components \in SeqsUpTo(EntityNames, MaxList), Ps \in SeqsUpTo(Providers, MaxList),
        selector \in RouterSelectors :
       Idle /\ setupRouterContainer(Components, Ps, selector)
  \/ \E c \in Callers, className \in ClassNames, cs \in OptSelectors, rs \in OptSelectors :
       resolveLookup(c, className, cs, rs, Undefined)
  \/ \E c \in Callers : containerResolveRead(c)
  \/ \E c \in Callers : containerResolveStore(c)
  \/ \E c \in Callers, scope \in ScopeKinds, selector \in ResetSelectors :
       resetScopeDrop(c, scope, selector)
  \/ \E c \in Callers, className \in ClassNames : resetClassDrop(c, className)
  \/ \E c \in Callers : reregisterRoot(c)
  \/ \E c \in Callers : reregisterRouters(c)
  \/ \E c \in Callers : reregisterComponents(c)
  \/ Idle /\ resetAll

SpecSteps == Init /\ [][NextSteps]_vars

\* --------------------------------------------------- the wrapping layer
\* The constructors of ComponentWrapper and RouterWrapper, one step per
\* call they make on the engine.  paramTypes is the 'design:paramtypes'
\* metadata of the wrapped entity: the names of its constructor parameter
\* types, in declared order.
MaxDeps == 2      \* constructor parameters of a wrapped entity

ParamTypeNames == {"N", DMName, "Object"}
ParamTypes == SeqsUpTo(ParamTypeNames, MaxDeps)

\* the wrapped classes: a component and a router
ComponentEntity == [name |-> "C", fn |-> 4]
RouterEntity == [name |-> "S", fn |-> 5]

\* the controller object a wrapper registers under 'Controller'
ControllerVal == [kind |-> "controller", token |-> Undefined, id |-> 0, cls |-> NoProvider]

\* a wrapper constructor at its loop over paramTypes: the selectors and the
\* entity it resolves for, the index of the loop, the constructorArgs
\* pushed so far, and the resolve calls made so far with what each returned
InWrapper(selector, routerSelector, entity, paramTypes) ==
  [at |-> "paramTypes", token |-> Undefined, entity |-> entity, selector |-> selector,
   routerSelector |-> routerSelector, paramTypes |-> paramTypes, next |-> 1,
   args |-> <<>>, resolved |-> <<>>]

\* ComponentWrapper's constructor up to the loop: setupComponentContainer
\* with the entity as a provider, the router of the entity, and the
\* controller registered on the engine's container
ComponentWrapper(c, selector, paramTypes) ==
  /\ Idle
  /\ selector \in DOMAIN componentScopes \/ ScopeCount < MaxScopes
  /\ Objects + Len(paramTypes) <= MaxObjects
  /\ LET fresh == selector \notin DOMAIN componentScopes
         scopes1 == IF fresh THEN MapSet(componentScopes, selector, EmptyMap)
                    ELSE componentScopes
         classes1 == IF fresh THEN MapSet(componentClasses, selector, EmptyMap)
                     ELSE componentClasses
         st == RegisterProviders(
                 [scopeMap |-> scopes1[selector], classMap |-> classes1[selector],
                  c |-> container],
                 "component:" \o selector, <<ComponentEntity>>)
     IN /\ componentScopes' = MapSet(scopes1, selector, st.scopeMap)
        /\ componentClasses' = MapSet(classes1, selector, st.classMap)
        /\ container' = Register(st.c, "Controller", ValueRegistration(ControllerVal))
  /\ calls' = [calls EXCEPT ![c] = InWrapper(selector,
                                            getRouterForComponent(ComponentEntity.name),
                                            ComponentEntity, paramTypes)]
  /\ UNCHANGED <<rootScope, routerScopes, currentSelector, currentRouterSelector,
                 componentToRouter, rootClasses, routerClasses, built, history>>

\* the Router decorator: setupRouterContainer with the entity as a provider
Router(Components, selector) ==
  /\ Idle
  /\ setupRouterContainer(Components, <<RouterEntity>>, selector)

\* RouterWrapper's constructor up to the loop, for a router the decorator
\* has set up: the controller registered on the engine's container
RouterWrapper(c, selector, paramTypes) ==
  /\ Idle
  /\ selector \in DOMAIN routerScopes
  /\ Objects + Len(paramTypes) <= MaxObjects
  /\ container' = Register(container, "Controller", ValueRegistration(ControllerVal))
  /\ calls' = [calls EXCEPT ![c] = InWrapper(Undefined, selector, RouterEntity, paramTypes)]
  /\ UNCHANGED <<tables, built, history>>

\* what a wrapper pushes for a parameter type: what resolve returned, or
\* the controller when resolve returned undefined for the type name 'Object'
Dependency(r, ParamTypeName) ==
  IF r.value = UndefinedVal /\ ParamTypeName = "Object"
  THEN ContainerResolve(r.c, "Controller", 0).value
  ELSE r.value

\* a loop that pushes nothing for a dependency without a provider
SkippingWrapperResolve(c) ==
  /\ calls[c].at = "paramTypes"
  /\ calls[c].next <= Len(calls[c].paramTypes)
  /\ LET w == calls[c]
         ParamTypeName == w.paramTypes[w.next]
         r == ResolveOutcome(ParamTypeName, w.selector, w.routerSelector, w.entity.name)
     IN IF r.value = ThrownVal
        THEN /\ calls' = [calls EXCEPT ![c] = IdleCall]
             /\ ret' = "throw"
             /\ UNCHANGED <<container, built, first>>
        ELSE /\ calls' = [calls EXCEPT
                            ![c].next = w.next + 1,
                            ![c].args = IF Dependency(r, ParamTypeName) = UndefinedVal
                                        THEN w.args
                                        ELSE Append(w.args, Dependency(r, ParamTypeName)),
                            ![c].resolved = Append(w.resolved, [name |-> ParamTypeName,
                                                                value |-> r.value])]
             /\ container' = r.c
             /\ built' = IF r.built THEN MapSet(built, r.target, Built(r.target) + 1)
                         ELSE built
             /\ first' = IF r.value.kind = "object" /\ r.target \notin DOMAIN first
                         THEN MapSet(first, r.target, r.value)
                         ELSE first
             /\ UNCHANGED ret
  /\ UNCHANGED <<tables, old, lastReset>>

\* one round of "for (const ParamType of paramTypes)": resolve for the next
\* parameter type and constructorArgs.push; an error thrown by resolve
\* leaves the constructor, and no entity is constructed
WrapperResolve(c) ==
  /\ calls[c].at = "paramTypes"
  /\ calls[c].next <= Len(calls[c].paramTypes)
  /\ LET w == calls[c]
         ParamTypeName == w.paramTypes[w.next]
         r == ResolveOutcome(ParamTypeName, w.selector, w.routerSelector, w.entity.name)
     IN IF r.value = ThrownVal
        THEN /\ calls' = [calls EXCEPT ![c] = IdleCall]
             /\ ret' = "throw"
             /\ UNCHANGED <<container, built, first>>
        ELSE /\ calls' = [calls EXCEPT
                            ![c].next = w.next + 1,
                            ![c].args = Append(w.args, Dependency(r, ParamTypeName)),
                            ![c].resolved = Append(w.resolved, [name |-> ParamTypeName,
                                                                value |-> r.value])]
             /\ container' = r.c
             /\ built' = IF r.built THEN MapSet(built, r.target, Built(r.target) + 1)
                         ELSE built
             /\ first' = IF r.value.kind = "object" /\ r.target \notin DOMAIN first
                         THEN MapSet(first, r.target, r.value)
                         ELSE first
             /\ UNCHANGED ret
  /\ UNCHANGED <<tables, old, lastReset>>

\* "new Entity(...constructorArgs)" after the loop
WrapperNew(c) ==
  /\ calls[c].at = "paramTypes"
  /\ calls[c].next > Len(calls[c].paramTypes)
  /\ calls' = [calls EXCEPT ![c] = IdleCall]
  /\ ret' = "void"
  /\ UNCHANGED <<engine, built, first, old, lastReset>>

\* entities constructed by their wrappers over scopes set up by the
\* decorators, with instances invalidated in between
NextWrapper ==
  \/ \E Entity \in Providers : Idle /\ setupRootContainer(Entity)
  \/ \E Components \in SeqsUpTo(EntityNames, MaxList), selector \in RouterSelectors :
       Router(Components, selector)
  \/ \E c \in Callers, selector \in ComponentSelectors, paramTypes \in ParamTypes :
       ComponentWrapper(c, selector, paramTypes)
  \/ \E c \in Callers, selector \in RouterSelectors, paramTypes \in ParamTypes :
       RouterWrapper(c, selector, paramTypes)
  \/ \E c \in Callers : WrapperResolve(c)
  \/ \E c \in Callers : WrapperNew(c)
  \/ Idle /\ resetAll

SpecWrapper == Init /\ [][NextWrapper]_vars

\* ================================================================ claims
\* the argument tuples of resolve for a provider name
ArgsOf(N) == {<<N, cs, rs, owner>> : cs \in OptSelectors, rs \in OptSelectors,
                                     owner \in OptOwnerNames}
ResolveArgs == UNION {ArgsOf(N) : N \in ClassNames}
Outcome(a) == ResolveOutcome(a[1], a[2], a[3], a[4])
TargetOf(a) == ResolveTarget(a[1], a[2], a[3], a[4])

\* resolve returns the object held by this token's registration
ReturnsInstanceOf(r, token) ==
  /\ r.target = token
  /\ r.value.kind = "object"
  /\ r.value.token = token

Provides(scopes, selector, N) == selector \in DOMAIN scopes /\ N \in DOMAIN scopes[selector]

\* C1: when a name is registered in component scope cs, in router scope rs
\* and at root, resolve(N, cs, rs) returns the component-scope instance,
\* resolve(N, absent, rs) the router-scope instance and resolve(N) the
\* root-scope instance, whatever the order of the registrations.
C1_ScopePriority ==
  \A N \in ClassNames, cs \in Selectors, rs \in Selectors :
    (Provides(componentScopes, cs, N) /\ Provides(routerScopes, rs, N)
       /\ N \in DOMAIN rootScope)
    => /\ ReturnsInstanceOf(ResolveOutcome(N, cs, rs, Undefined), componentScopes[cs][N])
       /\ ReturnsInstanceOf(ResolveOutcome(N, Undefined, rs, Undefined), routerScopes[rs][N])
       /\ ReturnsInstanceOf(ResolveOutcome(N, Undefined, Undefined, Undefined), rootScope[N])

\* C2: once a token has been resolved, every later resolve that hits the
\* same token returns the identical instance until the next reset (first
\* holds the object of the first resolve since the last reset).
C2_SingletonPerToken ==
  \A a \in ResolveArgs :
    Outcome(a).target \in DOMAIN first => Outcome(a).value = first[Outcome(a).target]

\* a resolve has just returned an object that an earlier resolve constructed
C2_Witness == ret = "cached" /\ first # EmptyMap

\* C3: a reset step leaves every provider resolvable: arguments that reached
\* a token before the step reach the same token after it, and resolving
\* that token in the container the step leaves yields an object.
C3_ResolvableAfterReset ==
  [][Reset =>
       \A a \in ResolveArgs :
         LET t == TargetOf(a)
         IN t # Undefined
            => /\ TargetOf(a)' = t
               /\ ContainerResolve(container', t, Built(t) + 1).value.kind = "object"]_vars

\* after a reset a resolve constructed an object for a token that had been
\* resolved before the reset
C3_Witness ==
  /\ lastReset # "none"
  /\ ret = "built"
  /\ \E t \in DOMAIN old : t \in DOMAIN first

\* C4: after a full flush (resetScope, resetClass), resolving a token that
\* had been resolved before returns an object other than the one discarded,
\* and the token is registered.
C4_FreshAfterFlush ==
  lastReset = "flush"
  => \A a \in ResolveArgs :
       Outcome(a).target \in DOMAIN old
       => /\ Outcome(a).value.kind = "object"
          /\ Outcome(a).value # old[Outcome(a).target]
          /\ IsRegistered(container, Outcome(a).target)

\* a token resolved before a full flush has been resolved again after it
C4_Witness ==
  /\ lastReset = "flush"
  /\ \E t \in DOMAIN old : t \in DOMAIN first /\ first[t] # old[t]
                           /\ IsRegistered(container, t)

\* the registrations of a container: its tokens with their providers
Registrations(c) == [t \in DOMAIN c |-> [useValue |-> c[t].useValue, useClass |-> c[t].useClass]]

\* C5: resetAll leaves the registrations of the container as they were, and
\* after it resolving a token resolved before returns a new object without
\* any setup in between.
C5_ClearKeepsRegistrations ==
  [][/\ resetAll => Registrations(container') = Registrations(container)
     /\ lastReset' = "clear"
        => \A a \in ResolveArgs :
             Outcome(a)'.target \in DOMAIN old'
             => /\ Outcome(a)'.value.kind = "object"
                /\ Outcome(a)'.value # old'[Outcome(a)'.target]]_vars

\* C6: in every reachable state resolve('DependencyManagement', ...) returns
\* the engine, whatever the selectors and the owner.
C6_EngineAlwaysResolved ==
  \A cs \in OptSelectors, rs \in OptSelectors, owner \in OptOwnerNames :
    ResolveOutcome(DMName, cs, rs, owner).value = EngineVal

\* C7: a provider registered in component scope A and not at root is absent
\* for resolve(N, B) with another component selector B whose scope does not
\* provide it, no router selector and no owner.
C7_ComponentIsolation ==
  \A N \in ClassNames, A \in Selectors, B \in Selectors :
    (A # B /\ Provides(componentScopes, A, N) /\ ~Provides(componentScopes, B, N)
       /\ N \notin DOMAIN rootScope)
    => ResolveOutcome(N, B, Undefined, Undefined).value = UndefinedVal

\* N is provided by component scope "a" alone (routers may provide it) and
\* a resolve has just returned undefined
C7_Witness ==
  /\ ret = "undefined"
  /\ Provides(componentScopes, "a", "N")
  /\ ~Provides(componentScopes, "", "N")
  /\ "N" \notin DOMAIN rootScope

\* C8: when router R provides N and entity C is a member of R whose own
\* component scope does not provide N, resolve(N, C's selector, routerOf(C),
\* C) returns R's instance; for an entity S that is a member of no router,
\* with N neither in S's component scope nor at root, the same call returns
\* undefined.
C8_RouterSharing ==
  \A N \in ClassNames, sel \in OptSelectors, e \in OwnerNames :
    LET R == getRouterForComponent(e)
    IN /\ (R # Undefined /\ Provides(routerScopes, R, N)
             /\ ~Provides(componentScopes, sel, N))
          => ReturnsInstanceOf(ResolveOutcome(N, sel, R, e), routerScopes[R][N])
       /\ (R = Undefined /\ ~Provides(componentScopes, sel, N) /\ N \notin DOMAIN rootScope)
          => ResolveOutcome(N, sel, R, e).value = UndefinedVal

\* C9: when the owner is a member of router R1, R1 provides N and the
\* owner's own router scope R2 does not, resolve(N, absent, R2, owner)
\* returns R1's instance.
C9_ParentRouterHop ==
  \A N \in ClassNames, R2 \in Selectors, e \in OwnerNames :
    LET R1 == getRouterForComponent(e)
    IN (R1 # Undefined /\ R1 # R2 /\ Provides(routerScopes, R1, N)
          /\ ~Provides(routerScopes, R2, N))
       => ReturnsInstanceOf(ResolveOutcome(N, Undefined, R2, e), routerScopes[R1][N])

\* C10: a provider registered at root is shared: every resolve whose
\* component scope, router scope and owner's router do not provide the name
\* returns the root registration's object, the same one for all of them.
C10_RootShared ==
  \A a \in ResolveArgs :
    LET N == a[1]
        R == IF a[4] = Undefined THEN Undefined ELSE getRouterForComponent(a[4])
    IN (N \in DOMAIN rootScope /\ ~Provides(componentScopes, a[2], N)
          /\ ~Provides(routerScopes, a[3], N) /\ ~Provides(routerScopes, R, N))
       => /\ ReturnsInstanceOf(Outcome(a), rootScope[N])
          /\ rootScope[N] \in DOMAIN first => Outcome(a).value = first[rootScope[N]]

\* the root object is the only object and a resolve has just returned it
\* again
C10_Witness ==
  /\ ret = "cached"
  /\ "N" \in DOMAIN rootScope
  /\ DOMAIN first = {rootScope["N"]}

\* the setup entry points of one step
Setup ==
  /\ ret' \in {"void", "throw"}
  /\ \/ \E Entity \in Providers : setupRootContainer(Entity)
     \/ \E selector \in ComponentSelectors, Ps \in SeqsUpTo(Providers, MaxList) :
          setupComponentContainer(selector, Ps)
     \/ \E Components \in SeqsUpTo(EntityNames, MaxList),
           Ps \in SeqsUpTo(Providers, MaxList), selector \in RouterSelectors :
          setupRouterContainer(Components, Ps, selector)

\* C11: a setup step keeps every entry the scope tables already hold with
\* its token, and leaves that token's registration and cached instance as
\* they were; as long as no reset has occurred, no token has had more than
\* one object constructed.
C11_SetupIdempotent ==
  [][/\ Setup => \A e \in ScopeEntries :
                   /\ e \in ScopeEntries'
                   /\ IsRegistered(container', e.token)
                   /\ container'[e.token] = container[e.token]
     /\ lastReset' = "none" => \A t \in DOMAIN built' : built'[t] <= 1]_vars

\* Only a repeated setupRootContainer(N) leads here: N's root object is
\* cached, the last call returned nothing and was no reset, and a component
\* or router setup would have left a table.
C11_Witness ==
  /\ ret = "void"
  /\ lastReset = "none"
  /\ DOMAIN rootScope = {"N"}
  /\ routerScopes = EmptyMap /\ componentScopes = EmptyMap
  /\ rootScope["N"] \in DOMAIN first
  /\ container[rootScope["N"]].instance = first[rootScope["N"]]

\* two entries that register the same name in two different scopes
SameNameTwoScopes(e1, e2) ==
  /\ e1.name = e2.name
  /\ e1.kind # e2.kind \/ e1.selector # e2.selector

\* C12: two scopes that register the same name hold distinct tokens; the
\* container resolves each token to an object of that token, which is not
\* the object cached for the other, and leaves the other's registration as
\* it was; every resolve returns the object of the token it hits and
\* changes the registration of no other token.
C12_ScopesIndependent ==
  /\ \A e1 \in ScopeEntries, e2 \in ScopeEntries :
       SameNameTwoScopes(e1, e2)
       => LET r == ContainerResolve(container, e1.token, Built(e1.token) + 1)
          IN /\ e1.token # e2.token
             /\ r.value.kind = "object"
             /\ r.value.token = e1.token
             /\ r.value # container[e2.token].instance
             /\ r.c[e2.token] = container[e2.token]
  /\ \A a \in ResolveArgs :
       LET r == Outcome(a)
       IN r.value.kind = "object"
          => /\ r.value.token = r.target
             /\ \A t \in DOMAIN container : t # r.target => r.c[t] = container[t]

\* the same name has been resolved in two scopes and the two objects differ
C12_Witness ==
  \E e1 \in ScopeEntries, e2 \in ScopeEntries :
    /\ SameNameTwoScopes(e1, e2)
    /\ e1.token \in DOMAIN first /\ e2.token \in DOMAIN first
    /\ first[e1.token] # first[e2.token]
    /\ container[e1.token].instance = first[e1.token]
    /\ container[e2.token].instance = first[e2.token]

\* no provider for the name is found: the lookups fall through, or the
\* token resolve settles on is not registered
NoProviderFound(r) == r.target = Undefined \/ ~IsRegistered(container, r.target)

\* C13: for every name, the engine's own included, and all selector and
\* owner arguments, resolve raises no error, and returns undefined whenever
\* no provider for the name is found; so does get with the ambient context.
C13_AbsentNotError ==
  /\ \A name \in ResolveNames, cs \in OptSelectors, rs \in OptSelectors,
        owner \in OptOwnerNames :
       LET r == ResolveOutcome(name, cs, rs, owner)
       IN /\ r.value.kind # "throw"
          /\ NoProviderFound(r) => r.value = UndefinedVal
  /\ \A name \in ResolveNames :
       LET r == ResolveOutcome(name, currentSelector, currentRouterSelector, Undefined)
       IN /\ r.value.kind # "throw"
          /\ NoProviderFound(r) => r.value = UndefinedVal

Range(seq) == {seq[i] : i \in DOMAIN seq}

\* C14: routerOf is absent for every name at the start; a setupRouter step
\* sets it to the step's selector for every name its component list holds
\* and leaves it as it was for every other name; no other step changes it.
C14_LastWriteWins ==
  /\ \A name \in OwnerNames : getRouterForComponent(name) = Undefined
  /\ [][/\ ret' \in {"void", "throw"}
           => \A Components \in SeqsUpTo(EntityNames, MaxList),
                 Ps \in SeqsUpTo(Providers, MaxList), selector \in RouterSelectors :
                setupRouterContainer(Components, Ps, selector)
                => \A name \in OwnerNames :
                     getRouterForComponent(name)' =
                       IF name \in Range(Components) THEN selector
                       ELSE getRouterForComponent(name)
        /\ (\E name \in OwnerNames :
              getRouterForComponent(name)' # getRouterForComponent(name))
           => \E Components \in SeqsUpTo(EntityNames, MaxList),
                 Ps \in SeqsUpTo(Providers, MaxList), selector \in RouterSelectors :
                setupRouterContainer(Components, Ps, selector)]_vars

\* two routers have been set up and C's router is "b", an entity never
\* listed has none
C14_Witness ==
  /\ {"a", "b"} \subseteq DOMAIN routerScopes
  /\ getRouterForComponent("C") = "b"
  /\ getRouterForComponent("S") = Undefined

\* C15: a resetScope or resetClass step, whatever its arguments, leaves
\* every token of every scope table registered without a cached instance,
\* and a step of one entry point is a step of the other for all arguments.
C15_ResetIsGlobal ==
  [][(/\ lastReset' = "flush"
      /\ \/ \E scope \in ScopeKinds, selector \in OptSelectors : resetScope(scope, selector)
         \/ \E className \in ResolveNames : resetClass(className))
     => /\ \A e \in ScopeEntries :
             /\ IsRegistered(container', e.token)
             /\ container'[e.token].instance = UndefinedVal
        /\ \A scope \in ScopeKinds, selector \in OptSelectors : resetScope(scope, selector)
        /\ \A className \in ResolveNames : resetClass(className)]_vars

\* after a full flush nothing has been resolved yet, objects of a root
\* token and of a router or component token have been discarded, and no
\* token holds an instance
C15_Witness ==
  /\ lastReset = "flush" /\ ret = "void" /\ first = EmptyMap
  /\ \E e1 \in RootEntries, e2 \in RouterEntries \cup ComponentEntries :
       e1.token \in DOMAIN old /\ e2.token \in DOMAIN old
  /\ \A e \in ScopeEntries : container[e.token].instance = UndefinedVal

\* the requester named by componentClassName is part of router R: it is
\* recorded as a member of R, or it is the router entity itself, which the
\* Router decorator registers as a provider of its own scope
PartOfRouter(owner, R) ==
  /\ owner # Undefined
  /\ getRouterForComponent(owner) = R \/ owner \in DOMAIN routerScopes[R]

\* C16: every resolve that returns the instance held in the scope of a
\* router R is made with the componentClassName of a requester that is part
\* of R.
C16_RouterScopeConfined ==
  \A N \in ClassNames, cs \in OptSelectors, rs \in OptSelectors,
     owner \in OptOwnerNames, R \in DOMAIN routerScopes :
    (N \in DOMAIN routerScopes[R]
       /\ ReturnsInstanceOf(ResolveOutcome(N, cs, rs, owner), routerScopes[R][N]))
    => PartOfRouter(owner, R)

\* the scope string the setup methods hand to getToken
ScopeKey(kind, selector) == IF kind = "root" THEN "root" ELSE kind \o ":" \o selector

\* C17: the token of every table entry is getToken of its (scope kind,
\* selector, name) triple, and two entries with different triples hold
\* different tokens, for selectors and names that are arbitrary strings.
C17_TokensCollisionFree ==
  /\ \A e \in ScopeEntries : e.token = GetToken(e.name, ScopeKey(e.kind, e.selector))
  /\ \A e1 \in ScopeEntries, e2 \in ScopeEntries :
       (e1.kind # e2.kind \/ e1.selector # e2.selector \/ e1.name # e2.name)
       => e1.token # e2.token

\* C18: the ambient context is absent at the start, a setContext step sets
\* it to the pair it is given, clearContext sets both selectors to absent
\* and no other step changes it; a get step is the resolve step with the
\* ambient pair and no owner name, so it returns undefined when only the
\* parent-router hop of some owner would reach a provider.
C18_GetUsesContext ==
  /\ currentSelector = Undefined /\ currentRouterSelector = Undefined
  /\ [][/\ \A className \in ResolveNames :
             get(className)
             => /\ resolve(className, currentSelector, currentRouterSelector, Undefined)
                /\ ret' = Returned(ResolveOutcome(className, currentSelector,
                                                  currentRouterSelector, Undefined))
        /\ \A cs \in OptSelectors, rs \in OptSelectors :
             setContext(cs, rs) => currentSelector' = cs /\ currentRouterSelector' = rs
        /\ clearContext => currentSelector' = Undefined /\ currentRouterSelector' = Undefined
        /\ (~ clearContext /\ ~ \E cs \in OptSelectors, rs \in OptSelectors : setContext(cs, rs))
           => UNCHANGED <<currentSelector, currentRouterSelector>>]_vars

\* with a context set, get has just returned undefined for a name that
\* resolve with the same pair and owner C reaches through C's router
C18_Witness ==
  /\ ret = "undefined"
  /\ currentRouterSelector # Undefined
  /\ ResolveTarget("N", currentSelector, currentRouterSelector, Undefined) = Undefined
  /\ Truthy(getRouterForComponent("C"))
  /\ Provides(routerScopes, getRouterForComponent("C"), "N")
  /\ ResolveTarget("N", currentSelector, currentRouterSelector, "C")
       = routerScopes[getRouterForComponent("C")]["N"]

\* the step is a step of a resolve call  (a lookup ends with
\* undefined returned or with a token looked up)
ResolveStep ==
  \/ /\ ret' = "undefined" \/ \E c \in Callers : calls'[c].at = "lookedUp"
     /\ \E c \in Callers, className \in ClassNames, cs \in OptSelectors,
           rs \in OptSelectors :
          resolveLookup(c, className, cs, rs, Undefined)
  \/ \E c \in Callers : containerResolveRead(c) \/ containerResolveStore(c)

\* C19: a reset is a barrier.  Every step of a resolve call, of any caller,
\* is taken while no reset stands between its drop of the container and
\* the end of its rebuild, and finds every token of the scope tables
\* registered in the container.
C19_ResetIsBarrier ==
  [][ResolveStep
     => /\ \A c \in Callers : calls[c].at \notin OfReset
        /\ \A e \in ScopeEntries : IsRegistered(container, e.token)]_vars

\* a resetScope or resetClass ran from its drop to the end of its rebuild,
\* discarding an instance, and a resolve after it constructed a new one
C19_Witness ==
  /\ Idle
  /\ lastReset = "flush"
  /\ ret = "built"
  /\ \E t \in DOMAIN old \cap DOMAIN first : first[t] # old[t]

\* C20: between two invalidations at most one object is constructed for a
\* token, and every caller gets that object.  For every token resolved
\* since the last reset, the object the first of these resolves returned
\* is the last one constructed for the token and is the instance the
\* container holds for it, which is what every later resolve returns.
C20_OneInstancePerToken ==
  \A t \in DOMAIN first :
    /\ first[t].id = Built(t)
    /\ IsRegistered(container, t)
    /\ container[t].instance = first[t]

\* a root provider was set up step by step, one caller's resolve of it
\* constructed the instance and a later resolve returned the cached one
C20_Witness ==
  /\ Idle
  /\ ret = "cached"
  /\ \E N \in DOMAIN rootScope :
       /\ rootScope[N] \in DOMAIN first
       /\ Built(rootScope[N]) = 1
       /\ container[rootScope[N]].instance = first[rootScope[N]]

\* C21: a reset raises no error and leaves no table partly re-registered.
\* In every state each reset can be taken (reregisterAll has a result),
\* and a resetScope, resetClass or resetAll step returns normally with
\* every entry of every scope table registered in the container.
C21_ResetNeverFails ==
  /\ [](FullFlush # {})
  /\ [][\/ /\ ret' = "void"
           /\ \A e \in ScopeEntries : IsRegistered(container', e.token)
        \/ ~(lastReset' # "none" /\ first' = EmptyMap /\ Reset)]_vars

\* a resetAll over as many scope tables as there can be, after objects had
\* been resolved: it returned and every table entry is registered
C21_Witness ==
  /\ ret = "void"
  /\ lastReset = "clear"
  /\ old # EmptyMap
  /\ ScopeCount = MaxScopes
  /\ ScopeEntries # {}
  /\ \A e \in ScopeEntries : IsRegistered(container, e.token)

\* C22: membership does not depend on provider registration.  A
\* setupRouterContainer step records its selector for every name it lists,
\* whatever its provider list and whether or not the router table existed;
\* and in every state, an owner whose recorded router provides N gets that
\* router's instance of N from a resolve that names the owner, in whichever
\* order the membership and the provider were set up.
C22_MembershipIndependent ==
  [][/\ ret' \in {"void", "throw"}
        => \A Components \in SeqsUpTo(EntityNames, MaxList),
              Ps \in SeqsUpTo(Providers, MaxList), selector \in RouterSelectors :
             setupRouterContainer(Components, Ps, selector)
             => \A name \in Range(Components) : getRouterForComponent(name)' = selector
     /\ \A N \in ClassNames, e \in OwnerNames :
          LET R == getRouterForComponent(e)
          IN (R # Undefined /\ Provides(routerScopes, R, N))
             => ReturnsInstanceOf(ResolveOutcome(N, Undefined, Undefined, e),
                                  routerScopes[R][N])]_vars

\* C23: membership records are never removed.  No step, a reset included,
\* takes a name out of the membership map, and a step that changes the
\* router recorded for a name is a setupRouterContainer step that lists it.
C23_MembershipPersists ==
  [][\A name \in OwnerNames :
       /\ getRouterForComponent(name) # Undefined
          => getRouterForComponent(name)' # Undefined
       /\ getRouterForComponent(name)' # getRouterForComponent(name)
          => \E Components \in SeqsUpTo(EntityNames, MaxList),
                Ps \in SeqsUpTo(Providers, MaxList), selector \in RouterSelectors :
               /\ name \in Range(Components)
               /\ setupRouterContainer(Components, Ps, selector)]_vars

\* C is recorded as a member of router "b", whose object a reset has
\* discarded, and nothing has been resolved since
C23_Witness ==
  /\ lastReset # "none"
  /\ first = EmptyMap
  /\ getRouterForComponent("C") = "b"
  /\ Provides(routerScopes, "b", "N")
  /\ routerScopes["b"]["N"] \in DOMAIN old

\* C24: a reset leaves the scope tables as they were.  A resetScope,
\* resetClass or resetAll step changes no scope table, no class map and
\* neither field of the ambient context, and every token of a scope table
\* is registered for the same class after the step as before it.
C24_ResetKeepsTables ==
  [][(ret' = "void" /\ Reset)
     => /\ UNCHANGED <<rootScope, routerScopes, componentScopes>>
        /\ UNCHANGED <<rootClasses, routerClasses, componentClasses>>
        /\ UNCHANGED <<currentSelector, currentRouterSelector>>
        /\ \A e \in ScopeEntries :
             /\ IsRegistered(container, e.token)
             /\ IsRegistered(container', e.token)
             /\ container'[e.token].useClass = container[e.token].useClass]_vars

\* inside a session for component "a" a full flush discarded the object
\* that get had built from the component's table; the session and the
\* table entry are still there
C24_Witness ==
  /\ lastReset = "flush"
  /\ first = EmptyMap
  /\ currentSelector = "a"
  /\ Provides(componentScopes, "a", "N")
  /\ componentScopes["a"]["N"] \in DOMAIN old
  /\ IsRegistered(container, componentScopes["a"]["N"])

\* C25: instances are created lazily.  A setup or reset step constructs no
\* object and puts no instance into the container; a step that constructs
\* an object is a resolve that returns it, constructs exactly one, and hits
\* a registered token that held no instance.
C25_LazyInstances ==
  [][/\ \/ /\ built' = built
           /\ \A t \in DOMAIN container' :
                container'[t].instance # UndefinedVal
                => t \in DOMAIN container /\ container[t].instance = container'[t].instance
        \/ ~(Setup \/ (ret' = "void" /\ Reset))
     /\ \A t \in DOMAIN built' :
          built'[t] > Built(t)
          => /\ ret' = "built"
             /\ built'[t] = Built(t) + 1
             /\ \A u \in DOMAIN built' \ {t} : built'[u] = Built(u)
             /\ IsRegistered(container, t)
             /\ container[t].instance = UndefinedVal
             /\ container'[t].instance = Obj(t, built'[t], container[t].useClass)
             /\ \E a \in ResolveArgs : TargetOf(a) = t]_vars

\* all the scope tables there can be are set up, one token has been
\* resolved and holds its object, another is registered and has never had
\* an object constructed
C25_Witness ==
  /\ ScopeCount = MaxScopes
  /\ ret = "built"
  /\ \E e1 \in ScopeEntries, e2 \in ScopeEntries :
       /\ IsRegistered(container, e1.token) /\ IsRegistered(container, e2.token)
       /\ container[e1.token].instance # UndefinedVal
       /\ container[e2.token].instance = UndefinedVal
       /\ Built(e2.token) = 0

C27_TablesConsistent ==
  /\ DOMAIN rootScope = DOMAIN rootClasses
  /\ DOMAIN routerScopes = DOMAIN routerClasses
  /\ \A s \in DOMAIN routerScopes : DOMAIN routerScopes[s] = DOMAIN routerClasses[s]
  /\ DOMAIN componentScopes = DOMAIN componentClasses
  /\ \A s \in DOMAIN componentScopes : DOMAIN componentScopes[s] = DOMAIN componentClasses[s]
  /\ \A e \in ScopeEntries :
       /\ IsRegistered(container, e.token)
       /\ ~container[e.token].useValue

\* a root, a router and a component table each hold an entry, after a
\* full flush followed by a resolve
C27_Witness ==
  /\ lastReset = "flush"
  /\ ret = "built"
  /\ RootEntries # {} /\ RouterEntries # {} /\ ComponentEntries # {}

\* C28: every selector that is given counts, the empty string included.
\* For every selector s: a name the component table of s provides is
\* resolved from that table by resolve(N, s); a name the router table of s
\* provides is resolved from that table by resolve(N, absent, s); and for
\* an owner whose recorded router is s, resolve(N, absent, absent, owner)
\* takes the hop to the router table of s.
C28_EmptySelectorCounts ==
  \A N \in ClassNames, s \in Selectors :
    /\ Provides(componentScopes, s, N)
       => ReturnsInstanceOf(ResolveOutcome(N, s, Undefined, Undefined),
                            componentScopes[s][N])
    /\ Provides(routerScopes, s, N)
       => /\ ReturnsInstanceOf(ResolveOutcome(N, Undefined, s, Undefined),
                               routerScopes[s][N])
          /\ \A e \in OwnerNames :
               getRouterForComponent(e) = s
               => ReturnsInstanceOf(ResolveOutcome(N, Undefined, Undefined, e),
                                    routerScopes[s][N])

\* C29: singleton after rebuild.  Once a reset has occurred, a resolve step
\* that returns a newly built object has hit a token not resolved since the
\* last reset, has constructed that one object, different from every
\* object the token had before, and leaves it cached; a resolve step that
\* returns a cached object has hit a token resolved since the last reset,
\* constructs nothing and leaves the cache as it was, where every token
\* resolved since the last reset holds the object of its first resolve.
C29_SingletonAfterRebuild ==
  [][(lastReset # "none" /\ ret' \in {"built", "cached"})
     => /\ \A t \in DOMAIN first :
             IsRegistered(container, t) /\ container[t].instance = first[t]
        /\ ret' = "cached"
           => built' = built /\ container' = container /\ first' = first
        /\ ret' = "built"
           => \E t \in DOMAIN container \ DOMAIN first :
                /\ container[t].instance = UndefinedVal
                /\ built' = MapSet(built, t, Built(t) + 1)
                /\ container' = [container EXCEPT
                                   ![t].instance = Obj(t, built'[t], container[t].useClass)]
                /\ first' = MapSet(first, t, container'[t].instance)
                /\ t \in DOMAIN old => first'[t] # old[t]]_vars

\* after a resetAll a token resolved before it was resolved twice: the
\* first resolve built a new object, the last one returned it from the cache
C29_Witness ==
  /\ lastReset = "clear"
  /\ ret = "cached"
  /\ \E t \in DOMAIN old \cap DOMAIN first :
       /\ first[t] # old[t]
       /\ container[t].instance = first[t]
       /\ Built(t) = 2

\* the class retained for an entry of the scope tables
ClassOf(e) ==
  CASE e.kind = "root" -> rootClasses[e.name]
    [] e.kind = "router" -> routerClasses[e.selector][e.name]
    [] e.kind = "component" -> componentClasses[e.selector][e.name]

\* the first class of a provider array that bears the name
FirstNamed(Ps, name) ==
  Ps[CHOOSE i \in 1..Len(Ps) :
       Ps[i].name = name /\ \A j \in 1..(i - 1) : Ps[j].name # name]

\* the setup call of this step offered the scope of entry e the array Ps
Offered(e, Ps) ==
  \/ e.kind = "root" /\ Len(Ps) = 1 /\ setupRootContainer(Ps[1])
  \/ e.kind = "component" /\ setupComponentContainer(e.selector, Ps)
  \/ e.kind = "router" /\ setupRouterContainer(<<>>, Ps, e.selector)

\* a setup step of the same-name calls
SameNameSetup ==
  /\ ret' \in {"void", "throw"}
  /\ \/ \E Entity \in AllProviders : setupRootContainer(Entity)
     \/ \E selector \in ComponentSelectors, Ps \in SameName :
          setupComponentContainer(selector, Ps)
     \/ \E Ps \in SameName, selector \in RouterSelectors :
          setupRouterContainer(<<>>, Ps, selector)

\* C30: when classes of one name are set up in a scope, every setup step
\* returns without an error; an entry a step adds to a scope table keeps the
\* first class of the array that bears the name; an entry the table already
\* holds keeps its token and its class through every step, a later setup
\* with another class of the name and every reset included; and the token of
\* an entry is registered with, and any object it holds was constructed
\* from, that first class.
C30_FirstRegistrationWins ==
  [][/\ SameNameSetup => ret' = "void"
     /\ \A e \in ScopeEntries : e \in ScopeEntries' /\ ClassOf(e)' = ClassOf(e)
     /\ \A e \in ScopeEntries' \ ScopeEntries :
          \E Ps \in SameName \cup {<<P>> : P \in AllProviders} :
            Offered(e, Ps) /\ ClassOf(e)' = FirstNamed(Ps, e.name)
     /\ \A e \in ScopeEntries' :
          /\ Cardinality({x \in ScopeEntries' : /\ x.kind = e.kind
                                                /\ x.selector = e.selector
                                                /\ x.name = e.name}) = 1
          /\ IsRegistered(container', e.token)
          /\ container'[e.token].useClass = ClassOf(e)'
          /\ container'[e.token].instance # UndefinedVal
             => container'[e.token].instance.cls = ClassOf(e)']_vars

\* component scope 'a' was offered N2 before N1 (its arrays hold both), and
\* after a full flush its token holds the second object constructed from N2
C30_Witness ==
  /\ lastReset = "flush"
  /\ "a" \in DOMAIN componentClasses
  /\ "N" \in DOMAIN componentClasses["a"]
  /\ componentClasses["a"]["N"] = N2
  /\ LET t == componentScopes["a"]["N"]
     IN /\ container[t].instance = Obj(t, 2, N2)
        /\ t \in DOMAIN old /\ old[t] = Obj(t, 1, N2)

\* C31: own router before parent router before root.  When N is in the
\* table of router rs and in the table of the different router the owner is
\* a member of, resolve(N, absent, rs, owner) returns the instance of rs;
\* when N is in the table of the owner's router and at root, and neither in
\* the component table nor in the own-router table named by the call,
\* resolve returns the instance of the owner's router.
C31_OwnBeforeParentBeforeRoot ==
  \A N \in ClassNames, owner \in OwnerNames :
    LET parent == getRouterForComponent(owner)
    IN (parent # Undefined /\ Provides(routerScopes, parent, N))
       => /\ \A rs \in RouterSelectors :
               (rs # parent /\ Provides(routerScopes, rs, N))
               => ReturnsInstanceOf(ResolveOutcome(N, Undefined, rs, owner),
                                    routerScopes[rs][N])
          /\ \A cs \in OptSelectors, rs \in OptSelectors :
               (/\ N \in DOMAIN rootScope
                /\ rs # parent
                /\ ~Provides(componentScopes, cs, N)
                /\ ~Provides(routerScopes, rs, N))
               => ReturnsInstanceOf(ResolveOutcome(N, cs, rs, owner),
                                    routerScopes[parent][N])

\* C32: skipping the parent-router hop changes no result.  In every state,
\* for every name, the engine's own included, and every component selector,
\* a resolve whose routerSelector is the router recorded for its owner (as
\* in the call a component wrapper makes, absent when the owner is no
\* member) hits the same token and returns the same value as the resolve
\* with the same selectors and no owner.
C32_SkippedHopChangesNothing ==
  \A name \in ResolveNames, cs \in OptSelectors, rs \in OptSelectors, owner \in OwnerNames :
    getRouterForComponent(owner) = rs
    => ResolveOutcome(name, cs, rs, owner) = ResolveOutcome(name, cs, rs, Undefined)

\* C is a member of router 'a'; component 'a' and router 'a' both provide
\* N; the call of C's wrapper, resolve(N, 'a', 'a', 'C'), has been made and
\* returns the cached component instance, as does the call without owner
C32_Witness ==
  /\ getRouterForComponent("C") = "a"
  /\ Provides(componentScopes, "a", "N")
  /\ Provides(routerScopes, "a", "N")
  /\ ret = "cached"
  /\ componentScopes["a"]["N"] \in DOMAIN first
  /\ ReturnsInstanceOf(ResolveOutcome("N", "a", "a", "C"), componentScopes["a"]["N"])
  /\ ReturnsInstanceOf(ResolveOutcome("N", "a", "a", Undefined), componentScopes["a"]["N"])

\* the token of N in the table of router selector s, if there is one
RouterTokens(s, N) ==
  IF s # Undefined /\ Provides(routerScopes, s, N) THEN {routerScopes[s][N]} ELSE {}

\* C33: the parent-router hop is one level.  A resolve made for a router
\* (no component selector, routerSelector rs, owner R) hits a token of the
\* table of rs, of the table of the router R is a direct member of, or of
\* the root table, or none; when neither of these two router tables holds
\* N it returns the root instance if N is registered at root and undefined
\* otherwise, whatever the routers above hold.
C33_HopIsOneLevel ==
  \A N \in ClassNames, rs \in ChainRouters \cup {Undefined}, R \in ChainRouters :
    LET r == ResolveOutcome(N, Undefined, rs, R)
        direct == RouterTokens(rs, N) \cup RouterTokens(getRouterForComponent(R), N)
    IN /\ r.target \in direct \cup {Undefined}
                       \cup (IF N \in DOMAIN rootScope THEN {rootScope[N]} ELSE {})
       /\ direct = {}
          => IF N \in DOMAIN rootScope
             THEN ReturnsInstanceOf(r, rootScope[N])
             ELSE r.value = UndefinedVal

\* router 'a' is a member of 'b' and 'b' a member of 'c'; only 'c' provides
\* N; resolve('N', absent, 'a', 'a') has just returned undefined
C33_Witness ==
  /\ getRouterForComponent("a") = "b"
  /\ getRouterForComponent("b") = "c"
  /\ DOMAIN routerScopes = {"a", "b", "c"}
  /\ Provides(routerScopes, "c", "N")
  /\ ~Provides(routerScopes, "a", "N")
  /\ ~Provides(routerScopes, "b", "N")
  /\ ret = "undefined"
  /\ ResolveOutcome("N", Undefined, "a", "a").value = UndefinedVal
  /\ ReturnsInstanceOf(ResolveOutcome("N", Undefined, "b", "b"), routerScopes["c"]["N"])

\* the table of a selector, empty when the selector has none
TableOf(scopes, selector) ==
  IF selector \in DOMAIN scopes THEN scopes[selector] ELSE EmptyMap

\* what a setup call with providers Ps leaves of the tables scopes and the
\* class maps classes of its kind of scope, for its selector: the names the
\* table held, with their tokens and classes, and the names of Ps it did not
\* hold, each with the token of prefix and name, registered with its class;
\* the tables of the other selectors as they were
Added(scopes, classes, scopesAfter, classesAfter, containerAfter, prefix, selector, Ps) ==
  LET before == TableOf(scopes, selector)
      names == {Ps[i].name : i \in 1..Len(Ps)}
  IN /\ DOMAIN scopesAfter = DOMAIN scopes \cup {selector}
     /\ \A s \in DOMAIN scopes \ {selector} :
          scopesAfter[s] = scopes[s] /\ classesAfter[s] = classes[s]
     /\ DOMAIN scopesAfter[selector] = DOMAIN before \cup names
     /\ \A n \in DOMAIN before :
          /\ scopesAfter[selector][n] = before[n]
          /\ classesAfter[selector][n] = classes[selector][n]
     /\ \A i \in 1..Len(Ps) :
          Ps[i].name \notin DOMAIN before
          => LET t == scopesAfter[selector][Ps[i].name]
             IN /\ t = GetToken(Ps[i].name, prefix \o selector)
                /\ IsRegistered(containerAfter, t)
                /\ classesAfter[selector][Ps[i].name].name = Ps[i].name
                /\ containerAfter[t].useClass = classesAfter[selector][Ps[i].name]

\* C34: a setupComponentContainer or setupRouterContainer step, for a scope
\* that exists as for one that does not, adds to the table of its selector
\* every provider the table did not hold, with a token registered in the
\* container, and leaves the entries the table held with their tokens and
\* classes; it leaves every registration and cached instance the container
\* held, the tables of the other selectors and the tables of the other
\* kinds of scope as they were.
C34_LaterSetupAdds ==
  [][ret' \in {"void", "throw"}
     => /\ \A selector \in ComponentSelectors, Ps \in SeqsUpTo(TwoProviders, MaxList) :
             setupComponentContainer(selector, Ps)
             => /\ ret' = "void"
                /\ Added(componentScopes, componentClasses, componentScopes',
                         componentClasses', container', "component:", selector, Ps)
                /\ \A t \in DOMAIN container : container'[t] = container[t]
                /\ UNCHANGED <<rootScope, rootClasses, routerScopes, routerClasses>>
        /\ \A selector \in AddRouterSelectors, Ps \in SeqsUpTo(TwoProviders, MaxList) :
             setupRouterContainer(<<>>, Ps, selector)
             => /\ ret' = "void"
                /\ Added(routerScopes, routerClasses, routerScopes',
                         routerClasses', container', "router:", selector, Ps)
                /\ \A t \in DOMAIN container : container'[t] = container[t]
                /\ UNCHANGED <<rootScope, rootClasses, componentScopes,
                               componentClasses>>]_vars

\* component scope 'a' holds N, whose instance is cached by a resolve, and
\* M, which a later setup call added (a call brings MaxList providers) and
\* which has no instance; that setup call has just returned
C34_Witness ==
  /\ ret = "void"
  /\ Provides(componentScopes, "a", "N")
  /\ Provides(componentScopes, "a", "M")
  /\ componentScopes["a"]["N"] \in DOMAIN first
  /\ container[componentScopes["a"]["N"]].instance = first[componentScopes["a"]["N"]]
  /\ container[componentScopes["a"]["M"]].instance = UndefinedVal

\* the tokens whose registration or cached instance a step changes
Touched == {t \in DOMAIN container : t \notin DOMAIN container' \/ container'[t] # container[t]}

\* C35: a resolve step (a step that returns something) leaves the scope
\* tables, the class maps, the membership map and the ambient context as
\* they were, adds no token to the container and changes no registration;
\* a step that returns a cached object, the engine, undefined or an error
\* changes nothing at all; a step that returns a newly built object changes
\* the cached instance of the token its arguments hit first, constructs
\* that one object, and changes and constructs nothing for any other token,
\* a lower-priority scope that holds the same name included.
C35_ResolveTouchesOneInstance ==
  [][ret' # "void"
     => /\ UNCHANGED tables
        /\ DOMAIN container' = DOMAIN container
        /\ Registrations(container') = Registrations(container)
        /\ ret' # "built" => container' = container /\ built' = built
        /\ ret' = "built"
           => \E t \in DOMAIN container :
                /\ Touched = {t}
                /\ container[t].instance = UndefinedVal
                /\ container'[t].instance.kind = "object"
                /\ built' = MapSet(built, t, Built(t) + 1)
                /\ \E a \in ResolveArgs :
                     TargetOf(a) = t /\ resolve(a[1], a[2], a[3], a[4])]_vars

\* N is in the table of component 'a', of router 'a' and at root;
\* resolve has just built the component-scope instance, and the router and
\* root tokens have never had an object constructed
C35_Witness ==
  /\ ret = "built"
  /\ Provides(componentScopes, "a", "N")
  /\ Provides(routerScopes, "a", "N")
  /\ "N" \in DOMAIN rootScope
  /\ container[componentScopes["a"]["N"]].instance.kind = "object"
  /\ container[routerScopes["a"]["N"]].instance = UndefinedVal
  /\ container[rootScope["N"]].instance = UndefinedVal
  /\ Built(routerScopes["a"]["N"]) = 0
  /\ Built(rootScope["N"]) = 0

\* C36: the ambient context is one pair.  A setContext step leaves exactly
\* the two selectors it is given, whatever the pair was; a clearContext step
\* leaves both absent, whatever the pair was; and a get step taken while the
\* pair is absent is the resolve step with no selectors: for a provider name
\* it hits the root token of the name and returns its instance, or hits
\* nothing and returns undefined, and for the engine's own name it hits the
\* container's registration of the engine (and never a scoped token).
C36_ContextIsOnePair ==
  [][/\ \A cs \in ResetSelectors, rs \in ResetSelectors :
          setContext(cs, rs) => <<currentSelector', currentRouterSelector'>> = <<cs, rs>>
     /\ clearContext => <<currentSelector', currentRouterSelector'>> = <<Undefined, Undefined>>
     /\ <<currentSelector, currentRouterSelector>> = <<Undefined, Undefined>>
        => \A name \in ResolveNames :
             get(name)
             => LET r == ResolveOutcome(name, Undefined, Undefined, Undefined)
                IN /\ resolve(name, Undefined, Undefined, Undefined)
                   /\ ret' = Returned(r)
                   /\ r.target \notin {e.token : e \in RouterEntries \cup ComponentEntries}
                   /\ IF name = DMName THEN r.target = DMName
                      ELSE IF name \in DOMAIN rootScope
                      THEN ReturnsInstanceOf(r, rootScope[name])
                      ELSE r.value = UndefinedVal]_vars

\* component 'a' and the root both provide N; a get under the context of
\* 'a' built the component instance, the context has been cleared since, and
\* a get has just returned the root instance
C36_Witness ==
  /\ <<currentSelector, currentRouterSelector>> = <<Undefined, Undefined>>
  /\ lastReset = "none"
  /\ ret = "built"
  /\ Provides(componentScopes, "a", "N")
  /\ "N" \in DOMAIN rootScope
  /\ componentScopes["a"]["N"] \in DOMAIN first
  /\ rootScope["N"] \in DOMAIN first
  /\ Built(rootScope["N"]) = 1

\* "if (!scopeMap || !classMap)" of a setup call for selector, after the
\* call has ensured the table and the class map where the table was missing
FailedToCreate(scopes, classes, selector) ==
  LET fresh == selector \notin DOMAIN scopes
      scopes1 == IF fresh THEN MapSet(scopes, selector, EmptyMap) ELSE scopes
      classes1 == IF fresh THEN MapSet(classes, selector, EmptyMap) ELSE classes
  IN selector \notin DOMAIN scopes1 \/ selector \notin DOMAIN classes1

\* C37: a scope table that should exist after setup exists.  In every
\* state, a setupComponentContainer or setupRouterContainer call for any
\* selector finds the table and the class map it has ensured, so that its
\* 'Failed to create ... scope' error is not raised; and no step that ends
\* with an error is a setupComponentContainer or setupRouterContainer step.
C37_ScopeTableExists ==
  /\ [](/\ \A selector \in ComponentSelectors :
             ~FailedToCreate(componentScopes, componentClasses, selector)
        /\ \A selector \in RouterSelectors :
             ~FailedToCreate(routerScopes, routerClasses, selector))
  /\ [][ret' = "throw"
        => /\ \A selector \in ComponentSelectors, Ps \in SeqsUpTo(Providers, MaxList) :
                ~setupComponentContainer(selector, Ps)
           /\ \A Components \in SeqsUpTo(EntityNames, MaxList),
                 Ps \in SeqsUpTo(Providers, MaxList), selector \in RouterSelectors :
                ~setupRouterContainer(Components, Ps, selector)]_vars

\* as many scopes as there can be, a component and a router scope among
\* them, set up again after a full flush; the last setup call returned
\* normally and nothing has been resolved since the flush
C37_Witness ==
  /\ ret = "void"
  /\ lastReset = "flush"
  /\ first = EmptyMap
  /\ ScopeCount = MaxScopes
  /\ DOMAIN componentScopes # {}
  /\ DOMAIN routerScopes # {}
  /\ DOMAIN componentScopes = DOMAIN componentClasses
  /\ DOMAIN routerScopes = DOMAIN routerClasses

====
